---- MODULE Spec2Model ----
(***************************************************************************)
(* A model of tex2utf (src/refactor): the record combinators, the bracket  *)
(* generator, the scope stack machine, the dispatch loop and the output    *)
(* stage.                                                                  *)
(*                                                                         *)
(* Text is a sequence of one-character strings.  A record string           *)
(* "h,l,b,sp,content" is the TLA+ record [h, l, b, sp, s]: the four header *)
(* fields are non-negative integers written and read back in decimal, and  *)
(* s is the content as the code stores it, rows separated by "\n"; every   *)
(* use splits it again the way the code does.  Glyphs outside ASCII are    *)
(* written by code point: u27E8 and u27E9 are the angle-bracket tips,      *)
(* u29F8 and u29F9 their arms, u2500 the fraction bar, u2502 the vertical  *)
(* extension, u256D u256E u2570 u256F the round caps, u250C u2510 u2514    *)
(* u2518 the square caps, u2561 u255E the brace middles.                   *)
(*                                                                         *)
(* Python indexes from 0 and the model's sequences from 1: an index taken  *)
(* from the code is used as seq[i + 1].                                    *)
(***************************************************************************)
EXTENDS Integers, Sequences, FiniteSets, TLC

VARIABLES
    level,          \* state.level: stack of indices into chunks
    chunks,         \* state.chunks: indices into out where chunks start
    tokenByToken,   \* state.tokenByToken: stack of scanning-mode flags
    out,            \* state.out: the output buffer of records
    wait,           \* state.wait: stack of closing events
    action,         \* state.action: stack of completion callbacks
    curlength,      \* state.curlength
    par,            \* state.par: the input not yet consumed
    linelength,     \* config.linelength
    opt_noindent,   \* config.opt_noindent
    printed,        \* what printrecord was given, in order
    err,            \* "none", or the place where Python raised IndexError
    obs,            \* what the builders and do_print did in the last step
    pc,             \* position of paragraph(): "start", "loop", "done"
    fn,             \* combinator specifications: the function applied
    args,           \* combinator specifications: its arguments
    ret,            \* combinator specifications: its result
    defs,           \* state.defs: the body of each macro of type "def"
    defcount,       \* paragraph(): the macro calls met in this paragraph
    maxdef,         \* config.maxdef
    held            \* the output buffer as the last discard command found it

vars == <<level, chunks, tokenByToken, out, wait, action, curlength, par,
          linelength, opt_noindent, printed, err, obs, pc, fn, args, ret,
          defs, defcount, maxdef, held>>

interp == <<level, chunks, tokenByToken, out, wait, action, curlength, par,
            linelength, opt_noindent, printed, err, obs, pc, defs, defcount, maxdef,
            held>>

\* ------------------------------------------------------------------ bounds

\* Tallest and widest block among the enumerated combinator arguments.
MaxH == 3
MaxW == 2
\* Largest width handed to center beyond the widest enumerated record.
MaxPad == 3
\* Tallest angle bracket generated in the bracket specification.
MaxAngleH == 6

\* ------------------------------------------------------- Python built-ins

Max(x, y) == IF x >= y THEN x ELSE y

Abs(x) == IF x >= 0 THEN x ELSE -x

\* c * n
Rep(c, n) == [i \in 1..n |-> c]

Spaces(n) == Rep(" ", IF n < 0 THEN 0 ELSE n)

\* str.isspace for the characters that occur
IsWs(c) == c \in {" ", "\n"}

\* s.ljust(n)
LJust(s, n) == s \o Spaces(n - Len(s))

\* s[:n] for n >= 0
Take(s, n) == SubSeq(s, 1, IF n < Len(s) THEN n ELSE Len(s))

\* s[n:] for n >= 0
Drop(s, n) == SubSeq(s, n + 1, Len(s))

RECURSIVE LStrip(_)
LStrip(s) == IF s # <<>> /\ IsWs(Head(s)) THEN LStrip(Tail(s)) ELSE s

RECURSIVE RStrip(_)
RStrip(s) ==
    IF s # <<>> /\ IsWs(s[Len(s)]) THEN RStrip(SubSeq(s, 1, Len(s) - 1)) ELSE s

\* c in s
Has(s, c) == \E i \in 1..Len(s) : s[i] = c

\* s.count(c)
Count(s, c) == Cardinality({i \in 1..Len(s) : s[i] = c})

\* s.split("\n"): at least one element, also for the empty string
RECURSIVE SplitNL(_)
SplitNL(s) ==
    IF ~Has(s, "\n") THEN <<s>>
    ELSE LET i == CHOOSE k \in 1..Len(s) :
                      s[k] = "\n" /\ \A j \in 1..(k - 1) : s[j] # "\n"
         IN <<SubSeq(s, 1, i - 1)>> \o SplitNL(Drop(s, i))

\* "\n".join(lines)
RECURSIVE JoinNL(_)
JoinNL(lines) ==
    IF lines = <<>> THEN <<>>
    ELSE IF Len(lines) = 1 THEN lines[1]
    ELSE lines[1] \o <<"\n">> \o JoinNL(Tail(lines))

\* while len(lines) < h: lines.append("")
PadLines(lines, h) == lines \o [i \in 1..(h - Len(lines)) |-> <<>>]

\* max(S) for a non-empty set of integers
MaxOf(S) == CHOOSE m \in S : \A x \in S : x <= m

\* t in s for strings: s occurs in t as a substring
IsSubstr(s, t) == \E i \in 0..(Len(t) - Len(s)) : SubSeq(t, i + 1, i + Len(s)) = s

\* The function of the program named f applied to the arguments a.  The
\* functions that call one another (join_records, do_print, commit, finish,
\* the builders and the token handlers) are reached through this one
\* operator, as callsub reaches the builders by name.
RECURSIVE call(_, _)

\* ------------------------------------------------------------- records.py

empty == [h |-> 0, l |-> 0, b |-> 0, sp |-> 0, s |-> <<>>]

string2record(s, no_expand) ==
    IF no_expand
    THEN [h |-> 1, l |-> Len(s), b |-> 0, sp |-> 0, s |-> s]
    ELSE [h |-> 0, l |-> Len(s), b |-> 0, sp |-> Count(s, " "), s |-> s]

get_length(rec) == rec.l

get_height(rec) == IF rec.h > 0 THEN rec.h ELSE 1

setbaseline(rec, new_b) == [rec EXCEPT !.b = new_b]

\* The rows a consumer reads: content.split("\n") if content else dflt,
\* then padded with empty rows to h.
Rows(s, dflt, h) == PadLines(IF s # <<>> THEN SplitNL(s) ELSE dflt, h)

cut(length, rec) ==
    IF rec.l - length < 0 THEN <<rec, empty>>
    ELSE IF rec.h # 0
    THEN LET lines == Rows(rec.s, [i \in 1..rec.h |-> <<>>], rec.h)
         IN << [h |-> rec.h, l |-> length, b |-> rec.b, sp |-> 0,
                s |-> JoinNL([i \in 1..Len(lines) |-> Take(lines[i], length)])],
               [h |-> rec.h, l |-> rec.l - length, b |-> rec.b, sp |-> 0,
                s |-> JoinNL([i \in 1..Len(lines) |-> Drop(lines[i], length)])] >>
    ELSE << [h |-> 0, l |-> length, b |-> rec.b, sp |-> 0, s |-> Take(rec.s, length)],
            [h |-> 0, l |-> rec.l - length, b |-> rec.b, sp |-> 0,
             s |-> Drop(rec.s, length)] >>

vStack(rec1, rec2) ==
    LET h1 == IF rec1.h = 0 THEN 1 ELSE rec1.h
        h2 == IF rec2.h = 0 THEN 1 ELSE rec2.h
        lines1 == Rows(rec1.s, << <<>> >>, h1)
        lines2 == Rows(rec2.s, << <<>> >>, h2)
    IN [h |-> h1 + h2, l |-> Max(rec1.l, rec2.l), b |-> h1 - 1, sp |-> 0,
        s |-> JoinNL(lines1 \o lines2)]

\* center with the width of the result left at the record's own width
centerKeepsWidth(length, rec) ==
    LET h1 == IF rec.h = 0 THEN 1 ELSE rec.h
        left == length - rec.l
        lines == Rows(rec.s, << <<>> >>, h1)
    IN IF left <= 0 THEN rec
       ELSE [h |-> h1, l |-> rec.l, b |-> rec.b, sp |-> 0,
             s |-> JoinNL([i \in 1..Len(lines) |->
                             LJust(Spaces(left \div 2) \o lines[i], length)])]

center(length, rec) ==
    LET h1 == IF rec.h = 0 THEN 1 ELSE rec.h
        left == length - rec.l
        left_pad == left \div 2
        lines == Rows(rec.s, << <<>> >>, h1)
    IN IF left <= 0 THEN rec
       ELSE [h |-> h1, l |-> length, b |-> rec.b, sp |-> 0,
             s |-> JoinNL([i \in 1..Len(lines) |->
                             LJust(Spaces(left_pad) \o lines[i], length)])]

\* vputs with the baseline left on the first row
vputsOnTop(s, baseline) ==
    IF Len(s) = 0 THEN empty
    ELSE [h |-> Len(s), l |-> 1, b |-> 0, sp |-> 0,
          s |-> JoinNL([i \in 1..Len(s) |-> <<s[i]>>])]

vputs(s, baseline) ==
    IF Len(s) = 0 THEN empty
    ELSE [h |-> Len(s), l |-> 1, b |-> baseline, sp |-> 0,
          s |-> JoinNL([i \in 1..Len(s) |-> <<s[i]>>])]

\* ------------------------------------------------------------ brackets.py

\* The width taken as the number of rows instead of the farthest arm.
angleWidthByHeight(h, b) == h

\* max_dist + 1 of regenerate_angle_bracket and of makehigh_inplace
angleWidth(h, b) == Max(b, h - b - 1) + 1

\* " " * col + char for one row of an angle bracket
angleLine(bracket_type, width, b, row) ==
    IF bracket_type = "<"
    THEN Spaces(Abs(row - b))
         \o <<IF row < b THEN "u29F8" ELSE IF row = b THEN "u27E8" ELSE "u29F9">>
    ELSE Spaces(width - 1 - Abs(row - b))
         \o <<IF row < b THEN "u29F9" ELSE IF row = b THEN "u27E9" ELSE "u29F8">>

angleRows(bracket_type, h, b) ==
    [i \in 1..h |-> angleLine(bracket_type, angleWidth(h, b), b, i - 1)]

\* max(len(line) for line in lines) if lines else 1
widest(lines) ==
    IF lines = <<>> THEN 1 ELSE MaxOf({Len(lines[i]) : i \in 1..Len(lines)})

\* [line.ljust(w) for line in lines]
padAll(lines, w) == [i \in 1..Len(lines) |-> LJust(lines[i], w)]

\* The rows of an angle bracket of h rows with its tip on row b, and the
\* width of the widest row.
regenerate_angle_bracket(bracket_type, h, b) ==
    [lines |-> padAll(angleRows(bracket_type, h, b), widest(angleRows(bracket_type, h, b))),
     w |-> widest(angleRows(bracket_type, h, b))]

makecompound(ascent, descent, base, exp_one, exp_real, top, bottom, middle) ==
    IF ascent >= 1 /\ descent > 0 /\ exp_real = middle
    THEN <<top>> \o Rep(exp_real, ascent + descent - 2) \o <<bottom>>
    ELSE IF descent <= 0 THEN Rep(exp_one, ascent - 1) \o <<base>>
    ELSE IF ascent <= 1 THEN <<base>> \o Rep(exp_one, descent)
    ELSE (IF ascent >= 2 THEN <<top>> \o Rep(exp_real, ascent - 2) ELSE <<top>>)
         \o <<middle>>
         \o (IF descent > 1 THEN Rep(exp_real, descent - 1) \o <<bottom>> ELSE <<bottom>>)

\* ---------------------------------------------------------------- join.py

\* "<" or ">" when the rows are taken for a rendered angle bracket, else "".
angleKind(lines, h1) ==
    IF ~(Has(JoinNL(lines), "u29F8") \/ Has(JoinNL(lines), "u29F9") \/ h1 <= 2) THEN ""
    ELSE IF Has(JoinNL(lines), "u27E8") THEN "<"
    ELSE IF Has(JoinNL(lines), "u27E9") THEN ">"
    ELSE ""

\* len(baseline_line) - len(baseline_line.lstrip())
leadingSpaces(lines, b1) ==
    IF b1 < Len(lines) THEN Len(lines[b1 + 1]) - Len(LStrip(lines[b1 + 1])) ELSE 0

\* The regenerated bracket kept at its own width where the operand was wider.
widenedNever(gen, l1, leading_spaces) ==
    [lines |-> gen.lines, l |-> gen.w]

\* The regenerated bracket gen in place of an operand of width l1.
widened(gen, l1, leading_spaces) ==
    IF l1 > gen.w
    THEN [lines |-> padAll(IF leading_spaces > 0
                           THEN [i \in 1..Len(gen.lines) |->
                                    Spaces(l1 - gen.w) \o gen.lines[i]]
                           ELSE gen.lines, l1),
          l |-> l1]
    ELSE [lines |-> padAll(gen.lines, gen.w), l |-> gen.w]

\* One operand of join_records after the angle-bracket check: its rows, width,
\* height and baseline, regenerated at (h, b) when the check takes it for an
\* angle bracket shorter than the joined height.
extendAngle(lines, h1, l1, b1, h, b) ==
    IF h > h1 /\ l1 <= 6 /\ angleKind(lines, h1) # ""
    THEN [h |-> h, b |-> b, regen |-> TRUE,
          w |-> widened(regenerate_angle_bracket(angleKind(lines, h1), h, b), l1,
                        leadingSpaces(lines, b1))]
    ELSE [h |-> h1, b |-> b1, regen |-> FALSE, w |-> [lines |-> lines, l |-> l1]]

\* The operand rows placed at their own index, without the baseline shift.
rowOffsetNone(b, b1) == 0

\* Row idx of the joined result takes row idx - (b - b1) of the operand.
rowOffset(b, b1) == b - b1

\* The joined height and baseline, and the two operands after the angle check.
joinDims(rec1, rec2, h1, h2, b, h) ==
    [h |-> h, b |-> b,
     p1 |-> extendAngle(Rows(rec1.s, <<>>, h1), h1, rec1.l, rec1.b, h, b),
     p2 |-> extendAngle(Rows(rec2.s, <<>>, h2), h2, rec2.l, rec2.b, h, b)]

joinParts(rec1, rec2) ==
    joinDims(rec1, rec2, get_height(rec1), get_height(rec2), Max(rec1.b, rec2.b),
             Max(rec1.b, rec2.b)
                 + Max(get_height(rec1) - rec1.b - 1, get_height(rec2) - rec2.b - 1) + 1)

\* Row idx of the left operand, padded to its width
leftRow(p1, b, idx) ==
    IF 0 <= idx - rowOffset(b, p1.b) /\ idx - rowOffset(b, p1.b) < p1.h
    THEN LJust(p1.w.lines[idx - rowOffset(b, p1.b) + 1], p1.w.l)
    ELSE Spaces(p1.w.l)

\* Row i of the right operand; an empty baseline row is filled with blanks
rightRow(p2, i) ==
    IF i = p2.b /\ Len(p2.w.lines[i + 1]) = 0 THEN Spaces(p2.w.l) ELSE p2.w.lines[i + 1]

joinRow(jp, idx) ==
    IF 0 <= idx - rowOffset(jp.b, jp.p2.b) /\ idx - rowOffset(jp.b, jp.p2.b) < jp.p2.h
    THEN LJust(Take(leftRow(jp.p1, jp.b, idx), jp.p1.w.l), jp.p1.w.l)
         \o rightRow(jp.p2, idx - rowOffset(jp.b, jp.p2.b))
    ELSE leftRow(jp.p1, jp.b, idx)

joinPlaced(jp, sp) ==
    [h |-> jp.h, l |-> jp.p1.w.l + jp.p2.w.l, b |-> jp.b, sp |-> sp,
     s |-> JoinNL([i \in 1..jp.h |-> joinRow(jp, i - 1)])]

join_records(rec1, rec2) == joinPlaced(joinParts(rec1, rec2), rec1.sp + rec2.sp)

\* ----------------------------------------- brackets.py: makehigh_inplace

\* base, exp_one, exp_real, top, bottom, middle for a delimiter, <<>> for
\* text that is none
delimiterParts(s, h, left_sp) ==
    IF s = <<"(">> THEN <<"(", " ", "u2502", "u256D", "u2570", "u2502">>
    ELSE IF s = <<")">> THEN <<")", " ", "u2502", "u256E", "u256F", "u2502">>
    ELSE IF s = <<"{">> THEN <<"{", " ", "u2502", "u256D", "u2570", "u2561">>
    ELSE IF s = <<"}">> THEN <<"}", " ", "u2502", "u256E", "u256F", "u255E">>
    ELSE IF s = <<"|">> \/ s = <<"|", "|">>
    THEN IF h < 3 THEN <<"|", "|", "|", "|", "|", "|">>
         ELSE IF left_sp = 0 THEN <<"|", " ", "u2502", "u256D", "u2570", "u2502">>
         ELSE <<"|", " ", "u2502", "u256E", "u256F", "u2502">>
    ELSE IF s = <<"[">> THEN <<"[", " ", "u2502", "u250C", "u2514", "u2502">>
    ELSE IF s = <<"]">> THEN <<"]", " ", "u2502", "u2510", "u2518", "u2502">>
    ELSE <<>>

withRightMargin(rec, right_sp) ==
    IF right_sp # 0
    THEN call("join_records", <<rec, string2record(Spaces(right_sp), FALSE)>>)
    ELSE rec

withMargins(rec, left_sp, right_sp) ==
    withRightMargin(IF left_sp # 0
                    THEN call("join_records", <<string2record(Spaces(left_sp), FALSE), rec>>)
                    ELSE rec,
                    right_sp)

\* The tall delimiter from its parts c, twice over for "||"
compoundRecord(s, c, h, b) ==
    IF Len(s) = 2
    THEN call("join_records",
              <<vputs(makecompound(b + 1, h - b - 1, c[1], c[2], c[3], c[4], c[5], c[6]), b),
                vputs(makecompound(b + 1, h - b - 1, c[1], c[2], c[3], c[4], c[5], c[6]), b)>>)
    ELSE vputs(makecompound(b + 1, h - b - 1, c[1], c[2], c[3], c[4], c[5], c[6]), b)

angleRecord(gen, h, b) ==
    [h |-> h, l |-> gen.w, b |-> b, sp |-> 0, s |-> JoinNL(gen.lines)]

\* makehigh_inplace once h is at least 1
stretched(rec, h, b, left_sp, right_sp) ==
    IF h < 2 \/ (h = 2 /\ IsSubstr(rec.s, <<"(", ")", "<", ">">>)) THEN rec
    ELSE IF rec.s = <<"<">> \/ rec.s = <<">">>
    THEN IF h = 2 THEN rec
         ELSE withMargins(angleRecord(regenerate_angle_bracket(rec.s[1], h, b), h, b),
                          left_sp, right_sp)
    ELSE IF delimiterParts(rec.s, h, left_sp) = <<>> THEN rec
    ELSE withMargins(compoundRecord(rec.s, delimiterParts(rec.s, h, left_sp), h, b),
                     left_sp, right_sp)

\* makehigh_inplace(out, idx, h, b, left_sp, right_sp) as the new value of
\* out[idx], given its old value rec.
makehigh_inplace(rec, h, b, left_sp, right_sp) ==
    IF rec.s = <<".">> THEN [rec EXCEPT !.s = <<" ">>]
    ELSE stretched(rec, IF h > 0 THEN h ELSE 1, b, left_sp, right_sp)

\* ------------------------------------------------- the interpreter state

\* The mutable state of the modules state.py and config.py as one value,
\* handed from call to call; a handler in the code is an operator from the
\* state before the call to the state after it.
\*   tbt      state.tokenByToken
\*   wait     the closing events; a count n is kept as the text Dec(n)
\*   err      where Python raised IndexError, "none" while it has not
\*   obs      what the builders and do_print did in this step
\* config.maxdef as config.py sets it
maxdefDefault == 400

\* state.defs with no macro defined
NoDefs == [m \in {} |-> <<>>]

State ==
    [level |-> level, chunks |-> chunks, tbt |-> tokenByToken, out |-> out,
     wait |-> wait, action |-> action, curlength |-> curlength, par |-> par,
     printed |-> printed, err |-> err, obs |-> <<>>]

\* The raise of an IndexError at the named place; nothing runs after it.
Fail(st, site) == IF st.err = "none" THEN [st EXCEPT !.err = site] ELSE st

\* A count as state.wait holds it next to the event names.
Dec(n) ==
    IF n \in 0..9 THEN <<"0", "1", "2", "3", "4", "5", "6", "7", "8", "9">>[n + 1]
    ELSE "other"

\* The position of seq[i] for a Python index i, 0 where Python raises.
Ix(seq, i) ==
    IF i >= 0 THEN (IF i < Len(seq) THEN i + 1 ELSE 0)
    ELSE (IF -i <= Len(seq) THEN Len(seq) + i + 1 ELSE 0)

\* A Python slice bound brought into 0..len
Clamp(seq, k) ==
    IF k < 0 THEN Max(Len(seq) + k, 0) ELSE IF k > Len(seq) THEN Len(seq) ELSE k

\* seq[:k] and seq[k:]
Upto(seq, k) == SubSeq(seq, 1, Clamp(seq, k))

From(seq, k) == SubSeq(seq, Clamp(seq, k) + 1, Len(seq))

Last(seq) == seq[Len(seq)]

\* seq after seq.pop()
Pop(seq) == SubSeq(seq, 1, Len(seq) - 1)

\* -------------------------------------------------------------- output.py

\* The rows kept for printing, with the common indentation min_indent removed
dedent(kept, min_indent) ==
    [i \in 1..Len(kept) |->
        IF Len(kept[i]) >= min_indent THEN Drop(kept[i], min_indent) ELSE kept[i]]

\* min over the rows of len(line) - len(line.lstrip()), 0 for no rows
minIndent(kept) ==
    IF kept = <<>> THEN 0
    ELSE -MaxOf({-(Len(kept[i]) - Len(LStrip(kept[i]))) : i \in 1..Len(kept)})

stripRows(all) ==
    SelectSeq([i \in 1..Len(all) |-> RStrip(all[i])], LAMBDA r : r # <<>>)

\* The lines printrecord prints: rows without trailing blanks, empty rows
\* dropped, the common indentation removed.
printrecord(rec) ==
    dedent(stripRows(SplitNL(rec.s)), minIndent(stripRows(SplitNL(rec.s))))

\* The c1-th call of the function exp_sp_maker(fr, re_val) returns: c2 starts
\* at 0 and the one assignment to it stores 0.
exp_sp(c1, fr, re_val) == Spaces((IF c1 > re_val THEN 0 ELSE 0) + fr + 1)

\* re.sub(" ", expander, s), the expander having been called c1 times before
RECURSIVE expandSpaces(_, _, _, _)
expandSpaces(s, c1, fr, re_val) ==
    IF s = <<>> THEN <<>>
    ELSE IF Head(s) = " "
    THEN exp_sp(c1 + 1, fr, re_val) \o expandSpaces(Tail(s), c1 + 1, fr, re_val)
    ELSE <<Head(s)>> \o expandSpaces(Tail(s), c1, fr, re_val)

\* out[0..last] with the spaces of the one-line records expanded
RECURSIVE expandRecords(_, _, _, _, _)
expandRecords(recs, last, c1, fr, re_val) ==
    IF recs = <<>> THEN <<>>
    ELSE IF last < 0 \/ Head(recs).h # 0
    THEN <<Head(recs)>> \o expandRecords(Tail(recs), last - 1, c1, fr, re_val)
    ELSE <<string2record(expandSpaces(Head(recs).s, c1, fr, re_val), FALSE)>>
         \o expandRecords(Tail(recs), last - 1, c1 + Count(Head(recs).s, " "),
                          fr, re_val)

RECURSIVE SumLen(_)
SumLen(recs) == IF recs = <<>> THEN 0 ELSE Head(recs).l + SumLen(Tail(recs))

RECURSIVE CountExp(_)
CountExp(recs) ==
    IF recs = <<>> THEN 0
    ELSE (IF Head(recs).h = 0 THEN Count(Head(recs).s, " ") ELSE 0) + CountExp(Tail(recs))

\* join_records folded from the left over a non-empty list
RECURSIVE JoinAll(_)
JoinAll(recs) ==
    IF Len(recs) = 1 THEN recs[1]
    ELSE call("join_records", <<JoinAll(Pop(recs)), Last(recs)>>)

\* The buffer after the justification step of do_print
justified(st, force, last, l, exp) ==
    IF ~force /\ l <= linelength /\ linelength - l > 0 /\ exp # 0
    THEN expandRecords(st.out, last, 0,
                       (linelength - l - ((linelength - l) % exp)) \div exp,
                       (linelength - l) % exp)
    ELSE st.out

\* chunks after "state.chunks[i] -= last + 1", made when records stay behind
shiftedChunks(st, last, out1) ==
    IF Len(out1) > last + 1
    THEN [i \in 1..Len(st.chunks) |-> st.chunks[i] - (last + 1)]
    ELSE st.chunks

\* The end of do_print: the joined record is printed and the buffer cleared
printed_and_cleared(st, force, last, l, exp, out1, chunks1) ==
    [st EXCEPT
       !.printed = Append(@, JoinAll(Upto(out1, last + 1))),
       !.obs = Append(@, [kind |-> "do_print", force |-> force,
                          recs |-> <<JoinAll(Upto(out1, last + 1))>>,
                          n |-> <<l, exp>>,
                          was |-> Upto(st.out, last + 1),
                          now |-> Upto(out1, last + 1)]),
       !.curlength = 0,
       !.out = IF Len(out1) > last + 1 THEN From(out1, last + 1) ELSE <<>>,
       !.chunks = IF Len(st.level) > 1
                  THEN Upto(chunks1, 1) \o From(chunks1, st.level[2])
                  ELSE <<0>>]

printJustified(st, force, last, l, exp, out1) ==
    printed_and_cleared(st, force, last, l, exp, out1, shiftedChunks(st, last, out1))

printUpTo(st, force, last) ==
    IF last < 0 THEN st
    ELSE IF last >= Len(st.out) THEN Fail(st, "do_print")
    ELSE printJustified(st, force, last, SumLen(Upto(st.out, last + 1)),
                        CountExp(Upto(st.out, last + 1)),
                        justified(st, force, last, SumLen(Upto(st.out, last + 1)),
                                  CountExp(Upto(st.out, last + 1))))

do_print(st, force) ==
    IF st.err # "none" THEN st
    ELSE IF Len(st.level) > 1 /\ Ix(st.chunks, st.level[2]) = 0 THEN Fail(st, "do_print")
    ELSE printUpTo(st, force,
                   IF Len(st.level) > 1 THEN st.chunks[st.level[2] + 1] - 1
                   ELSE Len(st.out) - 1)

\* s.rfind(" ", 0, stop): the Python index of the last space before stop, or -1
rfindSpace(s, stop) ==
    IF {i \in 0..(Clamp(s, stop) - 1) : s[i + 1] = " "} = {} THEN -1
    ELSE MaxOf({i \in 0..(Clamp(s, stop) - 1) : s[i + 1] = " "})

\* The record is cut at k; its head is added to the line and printed.
\* Gives the state and what is left of the record.
cutAndPrint(st, rec, k) ==
    [st |-> call("do_print", <<[st EXCEPT !.out = Append(@, cut(k, rec)[1]),
                                          !.curlength = @ + k], FALSE>>),
     rec |-> cut(k, rec)[2], lenrem |-> linelength]

\* The first loop of prepare_cut: cut at the last space that fits and print.
RECURSIVE cutAtSpaces(_)
cutAtSpaces(a) ==
    IF a.lenrem < a.rec.l /\ rfindSpace(a.rec.s, a.lenrem) > -1
    THEN cutAtSpaces(cutAndPrint(a.st, a.rec, rfindSpace(a.rec.s, a.lenrem) + 1))
    ELSE a

\* The forced break of prepare_cut
cutForced(a) ==
    IF a.rec.l > linelength /\ a.lenrem # 0
    THEN cutAndPrint(a.st, a.rec, a.lenrem)
    ELSE a

\* The last loop of prepare_cut: print full lines while the rest is too long.
RECURSIVE cutFullLines(_)
cutFullLines(a) ==
    IF a.rec.l > linelength
    THEN cutFullLines([st |-> call("do_print",
                                   <<[a.st EXCEPT !.out = <<cut(linelength, a.rec)[1]>>],
                                     FALSE>>),
                       rec |-> cut(linelength, a.rec)[2]])
    ELSE [st |-> [a.st EXCEPT !.curlength = 0], rec |-> a.rec]

printLine(a) == [st |-> call("do_print", <<a.st, FALSE>>), rec |-> a.rec]

\* Gives the state after the prints and the record to commit.
prepare_cut(st, rec) ==
    IF Len(st.level) # 1 \/ rec.l + st.curlength <= linelength
    THEN [st |-> st, rec |-> rec]
    ELSE cutFullLines(printLine(cutForced(
             IF rec.h < 2
             THEN cutAtSpaces([st |-> st, rec |-> rec,
                               lenrem |-> linelength - st.curlength])
             ELSE [st |-> st, rec |-> rec, lenrem |-> linelength - st.curlength])))

\* --------------------------------------------------------------- stack.py

\* The end of start: the new level on the chunks as start leaves them
started(st, chunks1, event, act) ==
    [st EXCEPT !.chunks = chunks1,
               !.level = Append(@, Len(chunks1) - 1),
               !.tbt = Append(@, 0),
               !.wait = Append(@, event),
               !.action = Append(@, act)]

start(st, event, act) ==
    IF st.err # "none" THEN st
    ELSE IF Ix(st.chunks, Last(st.level)) = 0 THEN Fail(st, "start")
    ELSE started(st,
                 IF /\ st.chunks[Last(st.level) + 1] <= Len(st.out) - 1
                    /\ Last(st.chunks) <= Len(st.out) - 1
                 THEN Append(st.chunks, Len(st.out))
                 ELSE st.chunks,
                 event, act)

\* state.tokenByToken[-1] = 1
tokenMode(st) ==
    IF st.err # "none" THEN st ELSE [st EXCEPT !.tbt[Len(st.tbt)] = 1]

assertHave(st, n) == Len(st.chunks) - Last(st.level) >= n

\* The end of collapseOne: out[start_idx .. last] becomes one record
collapseSpan(st, start_idx, last) ==
    IF last <= start_idx THEN st
    ELSE IF Ix(st.out, start_idx) = 0 \/ Ix(st.out, last) = 0
    THEN Fail(st, "collapseOne")
    ELSE [st EXCEPT !.out =
             Upto(st.out, start_idx)
             \o <<JoinAll(SubSeq(st.out, Ix(st.out, start_idx), Ix(st.out, last)))>>
             \o From(st.out, last + 1)]

collapseOne(st, n) ==
    IF st.err # "none" \/ n >= Len(st.chunks) THEN st
    ELSE IF n # Len(st.chunks) - 1 /\ Ix(st.chunks, n + 1) = 0 THEN Fail(st, "collapseOne")
    ELSE IF Ix(st.chunks, n) = 0 THEN Fail(st, "collapseOne")
    ELSE collapseSpan(st, st.chunks[Ix(st.chunks, n)],
                      IF n = Len(st.chunks) - 1 THEN Len(st.out) - 1
                      ELSE st.chunks[Ix(st.chunks, n + 1)] - 1)

\* collapseOne(len(chunks) - 1 - i) for i = from, ..., n - 1
RECURSIVE collapseEach(_, _, _)
collapseEach(st, from, n) ==
    IF from >= n THEN st
    ELSE collapseEach(collapseOne(st, Len(st.chunks) - 1 - from), from + 1, n)

\* The second loop of collapse: the last n chunks hold one record each
renumbered(st, n, len) ==
    IF n <= 0 \/ st.err # "none" THEN st
    ELSE [st EXCEPT !.chunks =
             [k \in 1..len |->
                 IF k > len - n + 1 THEN st.chunks[len - n + 1] + (k - (len - n + 1))
                 ELSE st.chunks[k]]]

collapseHave(st, n) == renumbered(collapseEach(st, 0, n), n, Len(st.chunks))

collapse(st, n) ==
    IF st.err # "none" THEN st
    ELSE collapseHave(st, IF Len(st.chunks) - Last(st.level) < n
                          THEN Len(st.chunks) - Last(st.level) ELSE n)

trim_end(st, idx) ==
    IF st.err # "none" \/ st.out = <<>> \/ idx < 0 \/ idx >= Len(st.out) THEN st
    ELSE IF st.out[idx + 1].h # 0 THEN st
    ELSE [st EXCEPT !.out[idx + 1] = string2record(RStrip(st.out[idx + 1].s), FALSE)]

trim_beg(st, idx) ==
    IF st.err # "none" \/ st.out = <<>> \/ idx < 0 \/ idx >= Len(st.out) THEN st
    ELSE IF st.out[idx + 1].h # 0 THEN st
    ELSE [st EXCEPT !.out[idx + 1] = string2record(LStrip(st.out[idx + 1].s), FALSE)]

\* The second half of trim_one, the start of the chunk being trimmed
trimOneEnd(st, n) ==
    IF n = Len(st.chunks) - 1 THEN trim_end(st, Len(st.out) - 1)
    ELSE IF Ix(st.chunks, n + 1) = 0 THEN Fail(st, "trim_one")
    ELSE trim_end(st, st.chunks[Ix(st.chunks, n + 1)] - 1)

trim_one(st, n) ==
    IF st.err # "none" THEN st
    ELSE IF Ix(st.chunks, n) = 0 THEN Fail(st, "trim_one")
    ELSE trimOneEnd(trim_beg(st, st.chunks[Ix(st.chunks, n)]), n)

\* trim_one(i) for i = from, ..., len(chunks) - 1
RECURSIVE trimEach(_, _)
trimEach(st, from) ==
    IF from >= Len(st.chunks) THEN st ELSE trimEach(trim_one(st, from), from + 1)

trim(st, n) == IF st.err # "none" THEN st ELSE trimEach(st, Len(st.chunks) - n)

puts(st, s, no_expand) == call("commit", <<st, string2record(s, no_expand)>>)

\* for rec in t: commit(rec)
RECURSIVE commitEach(_, _)
commitEach(st, t) ==
    IF t = <<>> THEN st ELSE commitEach(call("commit", <<st, Head(t)>>), Tail(t))

\* while len(level) > 1: finish("")
RECURSIVE finishAll(_)
finishAll(st) ==
    IF st.err # "none" \/ Len(st.level) <= 1 THEN st
    ELSE finishAll(call("finish", <<st, FALSE>>))

finishBuffer(st) == call("do_print", <<finishAll(st), TRUE>>)

\* The last lines of commit (k = len(level)) and of finish (k = len(wait)):
\* the group has collected the count it waits for.
\* The chunks of the innermost group that hold a record
ownedChunks(st) ==
    Cardinality({j \in (Last(st.level) + 1)..Len(st.chunks) : st.chunks[j] < Len(st.out)})

\* The state as the group fires: the step notes what the group waited for
\* and the chunks it owns.
firing(st, k) ==
    [st EXCEPT !.obs = <<[kind |-> "fire", recs |-> st.out,
                          n |-> <<k, ownedChunks(st)>>, event |-> st.wait[k],
                          sub |-> st.action[k]]>> \o @]

complete(st, k) ==
    IF st.err # "none" THEN st
    ELSE IF /\ Len(st.level) > 1
            /\ st.wait[k] = Dec(Len(st.chunks) - Last(st.level))
    THEN IF st.action[k] = "" THEN call("finish", <<firing(st, k), FALSE>>)
         ELSE call("callsub", <<firing(st, k), st.action[k]>>)
    ELSE st

\* commit from "state.out.append(rec)" on
appended(st) ==
    IF st.err # "none" THEN st
    ELSE IF st.chunks = <<>> THEN Fail(st, "commit")
    ELSE complete(IF Len(st.out) - 1 # Last(st.chunks)
                  THEN [st EXCEPT !.chunks = Append(@, Len(st.out) - 1)]
                  ELSE st,
                  Len(st.level))

\* commit after the line-length check left the state p.st and the record p.rec
checked(p) ==
    appended([p.st EXCEPT !.curlength = IF Len(p.st.level) = 1 THEN @ + p.rec.l ELSE @,
                          !.out = Append(@, p.rec)])

commit(st, rec) ==
    IF st.err # "none" THEN st
    ELSE IF Len(st.level) = 1 /\ st.curlength + rec.l > linelength
    THEN checked(prepare_cut(st, rec))
    ELSE checked([st |-> st, rec |-> rec])

\* finish from "state.level.pop()" on; t holds the records to commit again
poppedGroup(st, t, recommit) ==
    IF recommit
    THEN commitEach([st EXCEPT !.level = Pop(@), !.action = Pop(@),
                               !.tbt = Pop(@), !.wait = Pop(@)], t)
    ELSE [st EXCEPT !.level = Pop(@), !.action = Pop(@), !.tbt = Pop(@), !.wait = Pop(@)]

finishParent(st) == IF st.err # "none" THEN st ELSE complete(st, Len(st.wait))

\* finish once the group has its content in out1 and its chunks in chunks1
finishGroup(st, force_one_group, out1, chunks1) ==
    finishParent(
        IF Len(st.level) = 2 /\ ~force_one_group
        THEN poppedGroup([st EXCEPT !.out = Upto(out1, Last(chunks1)),
                                    !.chunks = chunks1],
                         From(out1, Last(chunks1)), TRUE)
        ELSE poppedGroup([st EXCEPT !.out = out1, !.chunks = chunks1], <<>>, FALSE))

finish(st, force_one_group) ==
    IF st.err # "none" \/ Len(st.level) <= 1 THEN st
    ELSE IF Ix(st.chunks, Last(st.level)) = 0 THEN Fail(st, "finish")
    ELSE finishGroup(st, force_one_group,
                     IF Len(st.out) < st.chunks[Last(st.level) + 1]
                     THEN Append(st.out, empty) ELSE st.out,
                     Upto(st.chunks, Last(st.level) + 1))

\* finish_ignore with nothing to stop it at the document root
finish_ignoreUnguarded(st) ==
    IF st.err # "none" THEN st
    ELSE IF Ix(st.chunks, Last(st.level)) = 0 THEN Fail(st, "finish_ignore")
    ELSE [st EXCEPT !.out = Upto(@, st.chunks[Last(st.level) + 1]),
                    !.level = Pop(@), !.tbt = Pop(@), !.action = Pop(@), !.wait = Pop(@)]

\* finish_ignore: the group is popped and what it collected is dropped
finish_ignore(st) ==
    IF st.err # "none" \/ Len(st.level) <= 1 THEN st
    ELSE IF Ix(st.chunks, Last(st.level)) = 0 THEN Fail(st, "finish_ignore")
    ELSE [st EXCEPT !.out = Upto(@, st.chunks[Last(st.level) + 1]),
                    !.level = Pop(@), !.tbt = Pop(@), !.action = Pop(@), !.wait = Pop(@)]

\* ------------------------------------------------------------ math_ops.py

\* re.match(r"\s*X", par) for a one-character token X
nextIs(p, x) == LStrip(p) # <<>> /\ Head(LStrip(p)) = x

\* The group now waits for two items; the other script is taken if it
\* follows, else an empty record stands for it.
scriptPair(st, other) ==
    IF ~nextIs(st.par, other) THEN call("commit", <<st, empty>>)
    ELSE [st EXCEPT !.par = Tail(LStrip(st.par))]

f_subscript(st) ==
    IF st.err # "none" THEN st
    ELSE scriptPair([st EXCEPT !.wait[Len(st.wait)] = "2",
                               !.action[Len(st.action)] = "f_subSuper"], "^")

f_superscript(st) ==
    IF st.err # "none" THEN st
    ELSE scriptPair([st EXCEPT !.wait[Len(st.wait)] = "2",
                               !.action[Len(st.action)] = "f_superSub"], "_")

\* The stacked record of sup_sub for superscript r1 (h1 rows) and subscript
\* r2 (h2 rows), one of them not empty
supSubStacked(r1, r2, h1, h2) ==
    IF r1.l = 0
    THEN [h |-> h2 + 1, l |-> Max(r1.l, r2.l), b |-> 0, sp |-> 0,
          s |-> <<"\n">> \o r2.s]
    ELSE IF r2.l = 0
    THEN [h |-> h1 + 1, l |-> Max(r1.l, r2.l), b |-> h1, sp |-> 0,
          s |-> r1.s \o <<"\n">>]
    ELSE [h |-> h1 + h2 + 1, l |-> Max(r1.l, r2.l), b |-> h1, sp |-> 0,
          s |-> r1.s \o <<"\n", "\n">> \o r2.s]

\* The rows of the stacked record, one per row of its height
supSubLines(built, result_h) ==
    PadLines(IF built.s # <<>> THEN SplitNL(built.s)
             ELSE [i \in 1..result_h |-> <<>>], result_h)

\* A blank column after the stacked record in the outer groups
supSubSpaced(st, r2, built, result_h) ==
    IF result_h > 1 /\ r2.l # 0 /\ Len(st.level) <= 3
    THEN [h |-> result_h, l |-> built.l + 1, b |-> built.b, sp |-> 0,
          s |-> JoinNL([i \in 1..result_h |->
                          LJust(supSubLines(built, result_h)[i], built.l) \o <<" ">>])]
    ELSE built

\* The end of sup_sub: the two records give way to the stacked one
supSubPlaced(st, r1, r2, result, offs) ==
    call("finish",
         <<[st EXCEPT !.chunks = Pop(st.chunks),
                      !.out = [Pop(st.out) EXCEPT ![Len(st.out) - 1] = result],
                      !.obs = Append(@, [kind |-> "sup_sub", recs |-> <<r1, r2, result>>,
                                         n |-> offs \o <<Len(st.level)>>,
                                         was |-> st.out,
                                         now |-> [Pop(st.out) EXCEPT
                                                    ![Len(st.out) - 1] = result]])],
           TRUE>>)

supSubBuilt(st, r1, r2, built, offs) ==
    supSubPlaced(st, r1, r2,
                 supSubSpaced(st, r2, built, IF built.h = 0 THEN 1 ELSE built.h), offs)

supSubOf(st, r1, r2, offs) ==
    IF r1.l = 0 /\ r2.l = 0 THEN call("finish", <<st, TRUE>>)
    ELSE IF Len(st.out) < 2 THEN Fail(st, "sup_sub")
    ELSE supSubBuilt(st, r1, r2,
                     supSubStacked(r1, r2, IF r1.h = 0 THEN 1 ELSE r1.h,
                                   IF r2.h = 0 THEN 1 ELSE r2.h), offs)

sup_sub(st, p1_off, p2_off) ==
    IF st.err # "none" THEN st
    ELSE IF \/ Ix(st.out, Len(st.out) - 1 - p1_off) = 0
            \/ Ix(st.out, Len(st.out) - 1 - p2_off) = 0
    THEN Fail(st, "sup_sub")
    ELSE supSubOf(st, st.out[Ix(st.out, Len(st.out) - 1 - p1_off)],
                  st.out[Ix(st.out, Len(st.out) - 1 - p2_off)], <<p1_off, p2_off>>)

\* A builder of two arguments after its trim(2) and collapse(2)
scriptsOf(st, p1_off, p2_off) ==
    IF st.err # "none" THEN st
    ELSE IF ~assertHave(st, 2) THEN call("finish", <<st, TRUE>>)
    ELSE sup_sub(st, p1_off, p2_off)

\* f_subSuper taking the subscript for the superscript
f_subSuperSwapped(st) == scriptsOf(collapse(trim(st, 2), 2), 1, 0)

f_subSuper(st) == scriptsOf(collapse(trim(st, 2), 2), 0, 1)

f_superSub(st) == scriptsOf(collapse(trim(st, 2), 2), 1, 0)

\* The letters of the model's inputs
Letters == {"a", "b", "c", "d", "i", "n", "x", "y"}

\* The macros of letters of the model's inputs
AlphaMacros ==
    {"\\frac", "\\over", "\\choose", "\\left", "\\right", "\\noindent", "\\relax",
     "\\int", "\\def", "\\a", "\\b", "\\hphantom", "\\setcounter",
     "\\sqrt", "\\overline", "\\underline", "\\hat", "\\tilde", "\\widehat"}

\* The text after the fraction asks for a space: it does not begin with one
\* of "+-=)>]}^_,;:\ " nor with \right, and begins with a letter, a macro
\* or one of "([<".
fractionTrailingSpace(p) ==
    /\ LStrip(p) # <<>>
    /\ \/ Head(LStrip(p)) \in AlphaMacros \ {"\\right"}
       \/ Head(LStrip(p)) \in Letters \cup {"(", "[", "<"}

\* The record before the fraction asks for a space after it
fractionLeadingSpace(st, check_idx) ==
    /\ check_idx >= 0 /\ check_idx < Len(st.out)
    /\ st.out[check_idx + 1].l > 0 /\ st.out[check_idx + 1].s # <<>>
    /\ Last(st.out[check_idx + 1].s) # " "
    /\ RStrip(st.out[check_idx + 1].s) # <<>>
    /\ Last(RStrip(st.out[check_idx + 1].s)) \notin {"+", "-", "=", "(", "<", "[", "{"}

\* numerator, bar and denominator stacked as they are, none of them centered
fractionStackedFlushLeft(numer, denom, length) ==
    setbaseline(vStack(vStack(numer, string2record(Rep("u2500", length), FALSE)), denom),
                get_height(numer))

\* numerator, bar and denominator stacked, each of the given length
fractionStacked(numer, denom, length) ==
    setbaseline(vStack(vStack(center(length, numer),
                              string2record(Rep("u2500", length), FALSE)),
                       center(length, denom)),
                get_height(center(length, numer)))

fractionSpaced(st, stacked, lead) ==
    IF fractionTrailingSpace(st.par)
    THEN call("join_records",
              <<IF lead THEN call("join_records", <<string2record(<<" ">>, FALSE), stacked>>)
                ELSE stacked,
                string2record(<<" ">>, FALSE)>>)
    ELSE IF lead THEN call("join_records", <<string2record(<<" ">>, FALSE), stacked>>)
    ELSE stacked

\* The end of f_fraction: the two records give way to the fraction
fractionPlaced(st, numer, denom, stacked, lead, result) ==
    call("finish",
         <<[st EXCEPT !.out = [Pop(st.out) EXCEPT ![Len(st.out) - 1] = result],
                      !.chunks = Pop(st.chunks),
                      !.obs = Append(@, [kind |-> "f_fraction",
                                         recs |-> <<numer, denom, stacked, result>>,
                                         n |-> <<IF lead THEN 1 ELSE 0>>,
                                         par |-> st.par,
                                         was |-> st.out,
                                         now |-> [Pop(st.out) EXCEPT
                                                    ![Len(st.out) - 1] = result]])],
           TRUE>>)

fractionBuilt(st, numer, denom, stacked, lead) ==
    fractionPlaced(st, numer, denom, stacked, lead, fractionSpaced(st, stacked, lead))

fractionOf(st, numer, denom) ==
    IF Ix(st.chunks, Last(st.level)) = 0 THEN Fail(st, "f_fraction")
    ELSE fractionBuilt(st, numer, denom,
                       fractionStacked(numer, denom,
                                       Max(get_length(numer), get_length(denom))),
                       fractionLeadingSpace(st, st.chunks[Last(st.level) + 1] - 1))

\* f_fraction after its trim(2) and collapse(2)
fractionArgs(st) ==
    IF st.err # "none" THEN st
    ELSE IF ~assertHave(st, 2) THEN call("finish", <<st, TRUE>>)
    ELSE IF Len(st.out) < 2 THEN Fail(st, "f_fraction")
    ELSE fractionOf(st, st.out[Len(st.out) - 1], Last(st.out))

f_fraction(st) == fractionArgs(collapse(trim(st, 2), 2))

chooseStacked(upper, lower, length) ==
    vStack(vStack(center(length, upper), string2record(Spaces(length), FALSE)),
           center(length, lower))

\* The end of f_choose: the stacked record between tall parentheses
choosePlaced(st, stacked) ==
    call("finish",
         <<[st EXCEPT
              !.chunks = Append(@, Len(st.out)),
              !.out = Upto(st.out, Len(st.out) - 2)
                      \o <<makehigh_inplace(string2record(<<"(">>, FALSE),
                                            stacked.h, stacked.b, 0, 1),
                           stacked,
                           makehigh_inplace(string2record(<<")">>, FALSE),
                                            stacked.h, stacked.b, 1, 0)>>],
           TRUE>>)

\* f_choose after its trim(2) and collapse(2)
chooseArgs(st) ==
    IF st.err # "none" THEN st
    ELSE IF ~assertHave(st, 2) THEN call("finish", <<st, TRUE>>)
    ELSE IF Len(st.out) < 2 THEN Fail(st, "f_choose")
    ELSE choosePlaced(st, chooseStacked(st.out[Len(st.out) - 1], Last(st.out),
                                        Max(get_length(st.out[Len(st.out) - 1]),
                                            get_length(Last(st.out)))))

f_choose(st) == chooseArgs(collapse(trim(st, 2), 2))

\* The end of a builder of one argument: the record it built takes the place
\* of the last one, and the scope closes as one group.
builtOnLast(st, rec) ==
    call("finish", <<[st EXCEPT !.out = Append(Upto(@, Len(@) - 1), rec)], TRUE>>)

\* The rows f_radical draws around content of h rows, l wide
radicalRows(lines, h, l) ==
    << <<" ", "u250C">> \o Rep("u2500", l) \o <<"u2510">> >>
    \o [i \in 1..h |-> (IF i = h THEN <<"u27CD", "u2502">> ELSE <<" ", "u2502">>)
                        \o LJust(lines[i], l) \o <<" ">>]

radical(rec) ==
    [h |-> get_height(rec) + 1, l |-> rec.l + 3, b |-> rec.b + 1, sp |-> 0,
     s |-> JoinNL(radicalRows(Rows(rec.s, << <<>> >>, get_height(rec)),
                              get_height(rec), rec.l))]

\* f_radical after its trim(1) and collapse(1)
radicalArgs(st) ==
    IF st.err # "none" THEN st
    ELSE IF ~assertHave(st, 1) THEN call("finish", <<st, TRUE>>)
    ELSE IF st.out = <<>> THEN Fail(st, "f_radical")
    ELSE builtOnLast(st, radical(Last(st.out)))

f_radical(st) == radicalArgs(collapse(trim(st, 1), 1))

overlineArgs(st) ==
    IF st.err # "none" THEN st
    ELSE IF ~assertHave(st, 1) THEN call("finish", <<st, TRUE>>)
    ELSE IF st.out = <<>> THEN Fail(st, "f_overline")
    ELSE builtOnLast(st, setbaseline(vStack(string2record(Rep("_", Last(st.out).l), FALSE),
                                            Last(st.out)),
                                     Last(st.out).b + 1))

f_overline(st) == overlineArgs(collapse(trim(st, 1), 1))

underlineArgs(st) ==
    IF st.err # "none" THEN st
    ELSE IF ~assertHave(st, 1) THEN call("finish", <<st, TRUE>>)
    ELSE IF st.out = <<>> THEN Fail(st, "f_underline")
    ELSE builtOnLast(st, setbaseline(vStack(Last(st.out),
                                            string2record(Rep("u203E", Last(st.out).l),
                                                          FALSE)),
                                     Last(st.out).b))

f_underline(st) == underlineArgs(collapse(trim(st, 1), 1))

\* The record f_putover leaves: the accent centered over the content
putoverStacked(rec, under, length) ==
    setbaseline(vStack(center(length, rec), center(length, under)),
                under.b + get_height(rec) + 1)

\* f_putover after its trim(1) and collapse(1)
putoverArgs(st, rec, no_finish) ==
    IF st.err # "none" THEN st
    ELSE IF ~assertHave(st, 1) THEN call("finish", <<st, TRUE>>)
    ELSE IF st.out = <<>> THEN Fail(st, "f_putover")
    ELSE IF no_finish
    THEN [st EXCEPT !.out = Append(Upto(@, Len(@) - 1),
                                   putoverStacked(rec, Last(st.out),
                                                  Max(Last(st.out).l, rec.l)))]
    ELSE builtOnLast(st, putoverStacked(rec, Last(st.out), Max(Last(st.out).l, rec.l)))

f_putover(st, rec, no_finish) == putoverArgs(collapse(trim(st, 1), 1), rec, no_finish)

f_putover_string(st, s) == f_putover(st, string2record(s, FALSE), FALSE)

\* f_widehat after its trim(1) and collapse(1)
widehatArgs(st) ==
    IF st.err # "none" THEN st
    ELSE IF st.out = <<>> THEN Fail(st, "f_widehat")
    ELSE IF Last(st.out).l <= 1 THEN f_putover(st, string2record(<<"^">>, FALSE), FALSE)
    ELSE f_putover(st, string2record(<<"/">> \o Rep("~", Last(st.out).l - 2) \o <<"\\">>,
                                     FALSE),
                   FALSE)

f_widehat(st) == widehatArgs(collapse(trim(st, 1), 1))

\* ------------------------------------------------------------ commands.py

open_curly(st) == start(st, "}", "")

close_curly(st) == call("finish", <<st, FALSE>>)

f_left(st) ==
    start(call("finish", <<collapse(trim(st, 1), 1), FALSE>>), "LeftRight", "")

left(st) ==
    tokenMode(start(tokenMode(start(st, "3", "f_leftright")), "1", "f_left"))

right(st) == collapse(trim(call("finish", <<st, TRUE>>), 1), 1)

\* The content of f_leftright between "[" and "]" when it has fewer than
\* three rows: a frame of three rows with the content on the middle one.
squareFrame(rec, h) ==
    [h |-> 3, l |-> rec.l, b |-> 1, sp |-> rec.sp,
     s |-> JoinNL(IF h <= 1
                  THEN <<Spaces(rec.l),
                         IF rec.s # <<>> THEN LJust(rec.s, rec.l) ELSE Spaces(rec.l),
                         Spaces(rec.l)>>
                  ELSE <<LJust(PadLines(SplitNL(rec.s), 2)[1], rec.l),
                         LJust(PadLines(SplitNL(rec.s), 2)[2], rec.l),
                         Spaces(rec.l)>>)]

\* left_s == "[" and right_s == "]" and h < 3
leftrightFramed(d1, mid, d2) ==
    d1.s = <<"[">> /\ d2.s = <<"]">> /\ (IF mid.h = 0 THEN 1 ELSE mid.h) < 3

\* The end of f_leftright: the three records are replaced and the group closed
leftrightDone(st, d1, mid, d2, content, h, opening, closing) ==
    call("finish",
         <<[st EXCEPT !.out = Upto(st.out, Len(st.out) - 3) \o <<opening, content, closing>>,
                      !.obs = Append(@, [kind |-> "f_leftright",
                                         recs |-> <<d1, mid, d2, opening, content, closing>>,
                                         n |-> <<h, content.b>>,
                                         was |-> st.out,
                                         now |-> Upto(st.out, Len(st.out) - 3)
                                                 \o <<opening, content, closing>>])],
           FALSE>>)

leftrightPlaced(st, d1, mid, d2, content, h) ==
    leftrightDone(st, d1, mid, d2, content, h,
                  makehigh_inplace(d1, h, content.b, 0, 1),
                  makehigh_inplace(d2, h, content.b, 1, 0))

leftrightOf(st, d1, mid, d2) ==
    IF leftrightFramed(d1, mid, d2)
    THEN leftrightPlaced(st, d1, mid, d2,
                         squareFrame(mid, IF mid.h = 0 THEN 1 ELSE mid.h), 3)
    ELSE leftrightPlaced(st, d1, mid, d2, mid, IF mid.h = 0 THEN 1 ELSE mid.h)

\* f_leftright after its trim(1) and collapse(1)
leftrightArgs(st) ==
    IF st.err # "none" \/ ~assertHave(st, 3) THEN st
    ELSE IF Len(st.out) < 3 THEN Fail(st, "f_leftright")
    ELSE leftrightOf(st, st.out[Len(st.out) - 2], st.out[Len(st.out) - 1], Last(st.out))

f_leftright(st) == leftrightArgs(collapse(trim(st, 1), 1))

\* over() and choose() from "state.wait[-2] = prevw" on
regroupOpened(st, rec, prevw, site) ==
    IF st.err # "none" THEN st
    ELSE IF Len(st.wait) < 2 THEN Fail(st, site)
    ELSE start(call("finish",
                    <<call("commit",
                           <<start([st EXCEPT !.wait[Len(st.wait) - 1] = prevw], "}", ""),
                             rec>>),
                      TRUE>>),
               "}", "")

\* over() and choose() from "if not stack.assertHave(1)" on
regroupClosed(st, prevw, act, site) ==
    IF st.err # "none" THEN st
    ELSE IF ~assertHave(st, 1) THEN call("finish", <<st, TRUE>>)
    ELSE IF st.out = <<>> \/ st.chunks = <<>> THEN Fail(st, site)
    ELSE regroupOpened(start([st EXCEPT !.out = Pop(st.out), !.chunks = Pop(st.chunks)],
                             "2", act),
                       Last(st.out), prevw, site)

\* over() and choose() inside a brace group: the group so far becomes the
\* first argument of the builder act, a new group collects the second.
regroup(st, act, site) ==
    regroupClosed(collapse(call("finish",
                                <<[st EXCEPT !.wait[Len(st.wait) - 1] = "junk"], TRUE>>),
                           1),
                  st.wait[Len(st.wait) - 1], act, site)

over(st) ==
    IF st.err # "none" THEN st
    ELSE IF Len(st.wait) > 1 /\ Last(st.wait) = "}" THEN regroup(st, "f_fraction", "over")
    ELSE puts(st, <<"\\", "o", "v", "e", "r">>, FALSE)

choose(st) ==
    IF st.err # "none" THEN st
    ELSE IF Len(st.wait) > 1 /\ Last(st.wait) = "}" THEN regroup(st, "f_choose", "choose")
    ELSE puts(st, <<"\\", "c", "h", "o", "o", "s", "e">>, FALSE)

\* The record "1,5,0,0,     " of the paragraph indentation
indentRecord == [h |-> 1, l |-> 5, b |-> 0, sp |-> 0, s |-> Spaces(5)]

noindent(st) ==
    IF st.err # "none" THEN st
    ELSE IF Len(st.out) = 1 /\ Len(st.chunks) = 1 /\ st.out[1] = indentRecord
    THEN [st EXCEPT !.out = <<>>, !.chunks = <<>>]
    ELSE puts(st, <<"\\", "n", "o", "i", "n", "d", "e", "n", "t">>, FALSE)

\* state.par = state.par.lstrip()
parLStrip(st) == IF st.err # "none" THEN st ELSE [st EXCEPT !.par = LStrip(st.par)]

dollar(st) ==
    IF st.err # "none" THEN st
    ELSE IF Len(st.wait) > 1 /\ Last(st.wait) = "$"
    THEN call("finish", <<trim_end(st, Len(st.out) - 1), FALSE>>)
    ELSE parLStrip(start(st, "$", ""))

\* The display is centered, printed, and the state reset
displayPrinted(st) ==
    IF st.err # "none" THEN st
    ELSE [st EXCEPT !.printed = Append(@, center(linelength, st.out[1])),
                    !.obs = Append(@, [kind |-> "display",
                                       recs |-> <<st.out[1], center(linelength, st.out[1])>>]),
                    !.level = <<0>>, !.chunks = <<0>>, !.tbt = <<0>>,
                    !.out = <<>>, !.curlength = 0]

\* ddollar after the closing finish("$$")
displayClosed(st) ==
    IF st.err # "none" \/ Len(st.out) = 0 THEN st
    ELSE displayPrinted(collapse(trim([st EXCEPT !.chunks = <<0>>], 1), 1))

ddollar(st) ==
    IF st.err # "none" THEN st
    ELSE IF Len(st.wait) > 1 /\ Last(st.wait) = "$$"
    THEN parLStrip(displayClosed(call("finish", <<trim_end(st, Len(st.out) - 1), FALSE>>)))
    ELSE parLStrip(start(finishBuffer(st), "$$", ""))

\* --------------------------------------------- commands.py: matrices

matrix(st) == start(start(start(st, "endMatrix", ""), "endRow", ""), "endCell", "")

\* finish("endCell", True); trim(1); collapse(1)
cellClosed(st) == collapse(trim(call("finish", <<st, TRUE>>), 1), 1)

ampersand(st) ==
    IF st.err # "none" THEN st
    ELSE IF Len(st.wait) > 1 /\ Last(st.wait) = "endCell"
    THEN start(cellClosed(st), "endCell", "")
    ELSE st

\* bbackslash() in a cell, with no \end next in the paragraph
endCellRow(st) ==
    start(start(call("finish", <<cellClosed(st), TRUE>>), "endRow", ""), "endCell", "")

\* The rows of halign are the chunks of the innermost scope, counted from 0;
\* the cells of a row are the records of its chunk.
halignRows(st) == Len(st.chunks) - Last(st.level)

halignRowStart(st, r) == st.chunks[r + Last(st.level) + 1]

halignRowLast(st, r) ==
    IF r = halignRows(st) - 1 THEN Len(st.out) - 1
    ELSE st.chunks[r + Last(st.level) + 2] - 1

halignCols(st, r) == halignRowLast(st, r) - halignRowStart(st, r) + 1

\* len(w)
columnCount(st) ==
    MaxOf({0} \cup {halignCols(st, r) : r \in 0..(halignRows(st) - 1)})

\* w[col] after the first loop
columnWidth(st, col) ==
    MaxOf({0} \cup {st.out[halignRowStart(st, r) + col + 1].l :
                       r \in {q \in 0..(halignRows(st) - 1) : col < halignCols(st, q)}})

\* w[col] with the spacing between the columns
spacedWidth(st, col, explength) ==
    columnWidth(st, col) + (IF col < columnCount(st) - 1 THEN explength ELSE 0)

\* c[col] once c is filled up to len(w)
alignment(c, col) ==
    IF c = <<>> THEN "c" ELSE IF col < Len(c) THEN c[col + 1] ELSE c[Len(c)]

alignedCell(rec, w, a, explength) ==
    IF a = "c" THEN center(w, rec)
    ELSE IF a = "l"
    THEN call("join_records", <<rec, string2record(Spaces(w - rec.l), FALSE)>>)
    ELSE IF a = "r"
    THEN call("join_records",
              <<call("join_records",
                     <<string2record(Spaces(w - explength - rec.l), FALSE), rec>>),
                string2record(Spaces(explength), FALSE)>>)
    ELSE rec

\* The row that holds the record of index idx, -1 when none does
halignRowOf(st, idx) ==
    IF \E r \in 0..(halignRows(st) - 1) :
           halignRowStart(st, r) <= idx /\ idx <= halignRowLast(st, r)
    THEN CHOOSE r \in 0..(halignRows(st) - 1) :
             halignRowStart(st, r) <= idx /\ idx <= halignRowLast(st, r)
    ELSE -1

\* The buffer after the second loop of halign
cellsAligned(st, explength, c) ==
    [i \in 1..Len(st.out) |->
        IF halignRowOf(st, i - 1) < 0 THEN st.out[i]
        ELSE alignedCell(st.out[i],
                         spacedWidth(st, i - 1 - halignRowStart(st, halignRowOf(st, i - 1)),
                                     explength),
                         alignment(c, i - 1 - halignRowStart(st, halignRowOf(st, i - 1))),
                         explength)]

\* vStack of acc over each of rest in turn
RECURSIVE vStackEach(_, _)
vStackEach(acc, rest) ==
    IF rest = <<>> THEN acc ELSE vStackEach(vStack(acc, Head(rest)), Tail(rest))

\* The end of halign: the collapsed rows are stacked into one record
halignStacked(st, base_idx) ==
    IF st.err # "none" THEN st
    ELSE IF base_idx >= Len(st.out) THEN Fail(st, "halign")
    ELSE [st EXCEPT
            !.out = Upto(st.out, base_idx)
                    \o <<setbaseline(
                            vStackEach(st.out[base_idx + 1], From(st.out, base_idx + 1)),
                            (get_height(vStackEach(st.out[base_idx + 1],
                                                   From(st.out, base_idx + 1))) - 1) \div 2)>>,
            !.chunks = Upto(st.chunks, Last(st.level) + 1)]

halignCollapsed(st) ==
    IF st.err # "none" THEN st
    ELSE IF Ix(st.chunks, Last(st.level)) = 0 THEN Fail(st, "halign")
    ELSE halignStacked(st, st.chunks[Last(st.level) + 1])

halign(st, explength, c) ==
    IF st.err # "none" THEN st
    ELSE halignCollapsed(
             collapse([st EXCEPT
                         !.out = cellsAligned(st, explength, c),
                         !.obs = Append(@, [kind |-> "halign",
                                            recs |-> cellsAligned(st, explength, c),
                                            was |-> st.out,
                                            n |-> <<explength, Last(st.level)>>,
                                            align |-> c,
                                            chunks |-> st.chunks])],
                      Len(st.chunks) - Last(st.level)))

endmatrix(st, explength, c) ==
    call("finish",
         <<halign(call("finish", <<cellClosed(st), TRUE>>), explength, c), TRUE>>)

\* ------------------------------------------------------ stack.py: callsub

f_discard(st) == finish_ignore(st)

callsub(st, sub) ==
    IF st.err # "none" THEN st
    ELSE IF sub = "f_discard" THEN f_discard(st)
    ELSE IF sub = "f_subscript" THEN f_subscript(st)
    ELSE IF sub = "f_superscript" THEN f_superscript(st)
    ELSE IF sub = "f_subSuper" THEN f_subSuper(st)
    ELSE IF sub = "f_superSub" THEN f_superSub(st)
    ELSE IF sub = "f_fraction" THEN f_fraction(st)
    ELSE IF sub = "f_choose" THEN f_choose(st)
    ELSE IF sub = "f_left" THEN f_left(st)
    ELSE IF sub = "f_leftright" THEN f_leftright(st)
    ELSE IF sub = "f_radical" THEN f_radical(st)
    ELSE IF sub = "f_overline" THEN f_overline(st)
    ELSE IF sub = "f_underline" THEN f_underline(st)
    ELSE IF sub = "f_widehat" THEN f_widehat(st)
    ELSE IF sub = "f_putover_string;^" THEN f_putover_string(st, <<"^">>)
    ELSE IF sub = "f_putover_string;~" THEN f_putover_string(st, <<"~">>)
    ELSE st

\* --------------------------------------------------------------- parser.py

ActiveTokens ==
    AlphaMacros \cup {"{", "}", "$", "^", "_", "\\{", "\\}"}

IsUsual(a) == a \notin ActiveTokens

\* The longest run of usual characters at the head of p
RECURSIVE usualRun(_)
usualRun(p) ==
    IF p # <<>> /\ IsUsual(Head(p)) THEN <<Head(p)>> \o usualRun(Tail(p)) ELSE <<>>

\* What the token pattern matches at the head of p: the piece, and how many
\* elements of p it takes (a macro of letters takes the blanks after it).
nextPiece(p, single) ==
    IF IsUsual(Head(p))
    THEN LET run == IF single THEN <<Head(p)>> ELSE usualRun(p)
         IN [piece |-> run, taken |-> Len(run), usual |-> TRUE]
    ELSE IF Head(p) \in AlphaMacros
    THEN [piece |-> <<Head(p)>>, usual |-> FALSE,
          taken |-> 1 + (Len(Tail(p)) - Len(LStrip(Tail(p))))]
    ELSE IF Head(p) = "$" /\ Len(p) > 1 /\ p[2] = "$"
    THEN [piece |-> <<"$$">>, taken |-> 2, usual |-> FALSE]
    ELSE [piece |-> <<Head(p)>>, taken |-> 1, usual |-> FALSE]

\* re.sub(r"\s+", " ", par)
RECURSIVE squeeze(_)
squeeze(p) ==
    IF p = <<>> THEN <<>>
    ELSE IF IsWs(Head(p)) THEN <<" ">> \o squeeze(LStrip(p))
    ELSE <<Head(p)>> \o squeeze(Tail(p))

\* re.sub(r"(\$\$)\s+", r"\1", par)
RECURSIVE noSpaceAfterDisplay(_)
noSpaceAfterDisplay(p) ==
    IF Len(p) < 2 THEN p
    ELSE IF p[1] = "$" /\ p[2] = "$"
    THEN <<"$", "$">> \o noSpaceAfterDisplay(LStrip(Drop(p, 2)))
    ELSE <<Head(p)>> \o noSpaceAfterDisplay(Tail(p))

preprocess(p) == noSpaceAfterDisplay(RStrip(squeeze(p)))

\* re.match(r"^\s*\\noindent\s*([^a-zA-Z\s]|$)", par)
startsNoindent(p) ==
    /\ nextIs(p, "\\noindent")
    /\ LET rest == LStrip(Tail(LStrip(p)))
       IN rest = <<>> \/ Head(rest) \notin Letters

\* re.search(r"d[txyzrsuvw]\s*$", piece): the Python index of the match, or -1
diffStart(piece) ==
    LET body == RStrip(piece)
        n == Len(body)
    IN IF n >= 2 /\ body[n - 1] = "d" /\ body[n] \in {"t", "x", "y", "z", "r", "s", "u", "v", "w"}
       THEN n - 2 ELSE -1

\* last_out.rstrip().split("\n")[0][-1:] of a record string: the header
\* "h,l,b,sp," ends in a comma and stands before the first row.
lastCharOfFirstLine(rec) ==
    LET first == SplitNL(RStrip(rec.s))[1]
    IN IF first = <<>> THEN "," ELSE Last(first)

\* The strings the branch for ordinary text hands to puts, in order
usualStrings(st, piece) ==
    LET in_math == /\ Len(st.wait) > 1
                   /\ \E i \in 1..Len(st.wait) :
                         st.wait[i] \in {"$", "$$", "}", "LeftRight", "endCell"}
        ds == diffStart(piece)
    IN IF in_math /\ piece[1] \in {"+", "-", "="} THEN << <<" ">> \o piece >>
       ELSE IF in_math /\ ds > 0
       THEN IF piece[ds] # "/" THEN <<Take(piece, ds), <<" ">> \o Drop(piece, ds)>>
            ELSE <<Take(piece, ds), Drop(piece, ds)>>
       ELSE IF in_math /\ piece[1] = "(" /\ Len(st.out) > 0
       THEN IF lastCharOfFirstLine(Last(st.out))
                   \notin {"+", "-", "=", "*", "/", "(", "<", "[", "{"}
            THEN << <<" ">> \o piece >>
            ELSE <<piece>>
       ELSE <<piece>>

\* stack.puts of each string in turn
RECURSIVE putsEach(_, _)
putsEach(st, strings) ==
    IF strings = <<>> THEN st ELSE putsEach(puts(st, Head(strings), FALSE), Tail(strings))

usualText(st, piece) ==
    putsEach([st EXCEPT !.obs = Append(@, [kind |-> "usual", piece |-> piece,
                                           wait |-> st.wait, n |-> Last(st.tbt),
                                           recs |-> usualStrings(st, piece)])],
             usualStrings(st, piece))

\* The record \int stands for.
intRecord ==
    [h |-> 3, l |-> 2, b |-> 1, sp |-> 0,
     s |-> <<"u256D", " ", "\n", "|", " ", "\n", "u256F", " ">>]

\* ------------------------------------------------------- calls by name

call(f, a) ==
    CASE f = "join_records" -> join_records(a[1], a[2])
      [] f = "makehigh_inplace" -> makehigh_inplace(a[1], a[2], a[3], a[4], a[5])
      [] f = "do_print" -> do_print(a[1], a[2])
      [] f = "commit" -> commit(a[1], a[2])
      [] f = "finish" -> finish(a[1], a[2])
      [] f = "callsub" -> callsub(a[1], a[2])
      [] f = "finishBuffer" -> finishBuffer(a[1])
      [] f = "usualText" -> usualText(a[1], a[2])
      [] f = "open_curly" -> open_curly(a[1])
      [] f = "close_curly" -> close_curly(a[1])
      [] f = "dollar" -> dollar(a[1])
      [] f = "ddollar" -> ddollar(a[1])
      [] f = "over" -> over(a[1])
      [] f = "choose" -> choose(a[1])
      [] f = "noindent" -> noindent(a[1])
      [] f = "left" -> left(a[1])
      [] f = "right" -> right(a[1])
      [] f = "puts" -> puts(a[1], a[2], FALSE)

\* --------------------------------------------------- paragraph(), by step

\* The state after a step, and the step's observations.
Assign(st) ==
    /\ level' = st.level
    /\ chunks' = st.chunks
    /\ tokenByToken' = st.tbt
    /\ out' = st.out
    /\ wait' = st.wait
    /\ action' = st.action
    /\ curlength' = st.curlength
    /\ par' = st.par
    /\ printed' = st.printed
    /\ err' = st.err
    /\ obs' = st.obs
    /\ UNCHANGED <<linelength, opt_noindent, fn, args, ret, maxdef>>

\* A step that leaves the macros alone
Update(st) == Assign(st) /\ UNCHANGED <<defs, defcount, held>>

\* The indentation of paragraph(): committed unless suppressed by the option
\* or by a \noindent at the start, which is taken from the input.
indented(st) ==
    IF ~opt_noindent /\ ~startsNoindent(st.par) THEN call("commit", <<st, indentRecord>>)
    ELSE IF startsNoindent(st.par) THEN [st EXCEPT !.par = LStrip(Tail(LStrip(st.par)))]
    ELSE st

\* The prologue of paragraph(): blank input is left alone, other input is
\* cleaned up and the indentation committed unless suppressed.
ParagraphStart ==
    /\ pc = "start"
    /\ IF LStrip(par) = <<>>
       THEN pc' = "flush" /\ Update(State)
       ELSE /\ pc' = "loop"
            /\ Assign(indented([State EXCEPT !.par = preprocess(par)]))
            /\ defcount' = 0
            /\ UNCHANGED <<defs, held>>

\* The loop of paragraph() has a token to take.
CanTake ==
    /\ pc = "loop"
    /\ err = "none"
    /\ par # <<>>
    /\ Last(tokenByToken) # 0 \/ LStrip(par) # <<>>

\* The piece the loop takes, and the state once it is taken from par.
Taken ==
    LET p == IF Last(tokenByToken) = 0 THEN LStrip(par) ELSE par
        np == nextPiece(p, Last(tokenByToken) # 0)
    IN [st |-> [State EXCEPT !.par = Drop(p, np.taken)], piece |-> np.piece,
        usual |-> np.usual, taken |-> np.taken]

\* state.type_table gives the token the type "def": define() has named it
Redefined == ~Taken.usual /\ Taken.piece[1] \in DOMAIN defs

Text ==
    /\ CanTake
    /\ Taken.usual
    /\ Update(call("usualText", <<Taken.st, Taken.piece>>))
    /\ UNCHANGED pc

OpenCurly ==
    /\ CanTake
    /\ ~Redefined
    /\ Taken.piece = <<"{">>
    /\ Update(call("open_curly", <<Taken.st>>))
    /\ UNCHANGED pc

CloseCurly ==
    /\ CanTake
    /\ ~Redefined
    /\ Taken.piece = <<"}">>
    /\ Update(call("close_curly", <<Taken.st>>))
    /\ UNCHANGED pc

Dollar ==
    /\ CanTake
    /\ ~Redefined
    /\ Taken.piece = <<"$">>
    /\ Update(call("dollar", <<Taken.st>>))
    /\ UNCHANGED pc

DDollar ==
    /\ CanTake
    /\ ~Redefined
    /\ Taken.piece = <<"$$">>
    /\ Update(call("ddollar", <<Taken.st>>))
    /\ UNCHANGED pc

\* The tokens of type sub1 and sub2 and the builder each one names.
subContents ==
    [tok \in {"^", "_", "\\frac", "\\sqrt", "\\overline", "\\underline", "\\hat",
              "\\tilde", "\\widehat"} |->
        CASE tok = "^" -> "f_superscript"
          [] tok = "_" -> "f_subscript"
          [] tok = "\\frac" -> "f_fraction"
          [] tok = "\\sqrt" -> "f_radical"
          [] tok = "\\overline" -> "f_overline"
          [] tok = "\\underline" -> "f_underline"
          [] tok = "\\hat" -> "f_putover_string;^"
          [] tok = "\\tilde" -> "f_putover_string;~"
          [] tok = "\\widehat" -> "f_widehat"]

SubN ==
    /\ CanTake
    /\ ~Redefined
    /\ Taken.piece[1] \in DOMAIN subContents
    /\ LET tok == Taken.piece[1]
           n == IF tok = "\\frac" THEN "2" ELSE "1"
           f == subContents[tok]
       IN Update(tokenMode(start(Taken.st, n, f)))
    /\ UNCHANGED pc

Over ==
    /\ CanTake
    /\ ~Redefined
    /\ Taken.piece = <<"\\over">>
    /\ Update(call("over", <<Taken.st>>))
    /\ UNCHANGED pc

Choose ==
    /\ CanTake
    /\ ~Redefined
    /\ Taken.piece = <<"\\choose">>
    /\ Update(call("choose", <<Taken.st>>))
    /\ UNCHANGED pc

Noindent ==
    /\ CanTake
    /\ ~Redefined
    /\ Taken.piece = <<"\\noindent">>
    /\ Update(call("noindent", <<Taken.st>>))
    /\ UNCHANGED pc

LeftDelim ==
    /\ CanTake
    /\ ~Redefined
    /\ Taken.piece = <<"\\left">>
    /\ Update(call("left", <<Taken.st>>))
    /\ UNCHANGED pc

\* \right; the step notes the depth and the buffer before it.
RightDelim ==
    /\ CanTake
    /\ ~Redefined
    /\ Taken.piece = <<"\\right">>
    /\ Update([call("right", <<Taken.st>>) EXCEPT
                 !.obs = <<[kind |-> "right", recs |-> out,
                            n |-> <<Len(level), Len(par)>>]>> \o @])
    /\ UNCHANGED pc

\* Tokens of type nothing
Nothing ==
    /\ CanTake
    /\ ~Redefined
    /\ Taken.piece = <<"\\relax">>
    /\ Update(Taken.st)
    /\ UNCHANGED pc

\* Tokens of type record
Record ==
    /\ CanTake
    /\ ~Redefined
    /\ Taken.piece = <<"\\int">>
    /\ Update(call("commit", <<Taken.st, intRecord>>))
    /\ UNCHANGED pc

\* Tokens of type self: the name without its backslash
Self ==
    /\ CanTake
    /\ ~Redefined
    /\ Taken.piece[1] \in {"\\{", "\\}"}
    /\ Update(call("commit", <<Taken.st, string2record(<<IF Taken.piece[1] = "\\{" THEN "{" ELSE "}">>, FALSE)>>))
    /\ UNCHANGED pc

\* The loop ends: no input is left, or only blanks the pattern does not match.
ParagraphEnd ==
    /\ pc = "loop"
    /\ err = "none"
    /\ ~CanTake
    /\ Update(IF out # <<>> THEN call("finishBuffer", <<[State EXCEPT !.par = <<>>]>>)
              ELSE [State EXCEPT !.par = <<>>])
    /\ pc' = "flush"

\* main(): the finishBuffer after the last paragraph
MainFlush ==
    /\ pc = "flush"
    /\ err = "none"
    /\ Update(call("finishBuffer", <<State>>))
    /\ pc' = "done"

Token ==
    \/ Text \/ OpenCurly \/ CloseCurly \/ Dollar \/ DDollar \/ SubN \/ Over
    \/ Choose \/ Noindent \/ LeftDelim \/ RightDelim \/ Nothing \/ Record \/ Self

\* ------------------------------------------------------ user-defined macros

\* get_balanced() past an opening brace: the text up to the brace that
\* closes it, and the input after that brace.  An escaped brace is an
\* ordinary character; input that ends early ends the text.
RECURSIVE balanced(_, _, _)
balanced(p, lev, text) ==
    IF p = <<>> THEN [text |-> text, rest |-> <<>>]
    ELSE IF Head(p) = "{" THEN balanced(Tail(p), lev + 1, Append(text, "{"))
    ELSE IF Head(p) = "}" /\ lev = 1 THEN [text |-> text, rest |-> Tail(p)]
    ELSE IF Head(p) = "}" THEN balanced(Tail(p), lev - 1, Append(text, "}"))
    ELSE balanced(Tail(p), lev, Append(text, Head(p)))

\* The place of the first opening brace of p, 0 when it has none
RECURSIVE braceAt(_, _)
braceAt(p, i) ==
    IF i > Len(p) THEN 0 ELSE IF p[i] = "{" THEN i ELSE braceAt(p, i + 1)

\* re.search(f"({macro})$", definition): the text ends with a macro, a macro
\* of letters taking the blanks after it.
endsWithMacro(text) ==
    \/ text # <<>> /\ Last(text) \in {"\\{", "\\}"}
    \/ RStrip(text) # <<>> /\ Last(RStrip(text)) \in AlphaMacros

\* define(): the name is the active token at the head of arg, and nothing
\* but parameters may follow it.  The input alphabet has no "#", so a macro
\* takes no parameter and any text after the name rejects the definition.
define(table, arg, definition) ==
    IF arg = <<>> \/ IsUsual(Head(arg)) THEN table
    ELSE IF Len(arg) = 2 /\ arg[1] = "$" /\ arg[2] = "$"
    THEN [m \in DOMAIN table \cup {"$$"} |-> IF m = "$$" THEN definition ELSE table[m]]
    ELSE IF Len(arg) = 1
    THEN [m \in DOMAIN table \cup {arg[1]} |-> IF m = arg[1] THEN definition ELSE table[m]]
    ELSE table

\* def_exp(): the text before the first brace names the macro and the
\* balanced group is its body; a body holding \def is dropped, and a body
\* that ends with a macro gets a blank so the macro stays apart from the
\* text it will be put before.
def_exp(st, table) ==
    IF braceAt(st.par, 1) = 0 THEN [st |-> st, defs |-> table]
    ELSE [st |-> [st EXCEPT !.par = balanced(Drop(st.par, braceAt(st.par, 1)), 1, <<>>).rest],
          defs |-> IF Has(balanced(Drop(st.par, braceAt(st.par, 1)), 1, <<>>).text, "\\def")
                   THEN table
                   ELSE define(table, Take(st.par, braceAt(st.par, 1) - 1),
                               IF endsWithMacro(balanced(Drop(st.par, braceAt(st.par, 1)), 1, <<>>).text)
                               THEN Append(balanced(Drop(st.par, braceAt(st.par, 1)), 1, <<>>).text, " ")
                               ELSE balanced(Drop(st.par, braceAt(st.par, 1)), 1, <<>>).text)]

\* A ceiling that lets one more expansion through
overCeilingLate(count) == count > maxdef + 1

\* defcount > config.maxdef
overCeiling(count) == count > maxdef

\* The characters of a macro name no table knows
NameChars(m) == IF m = "\\a" THEN <<"\\", "a">> ELSE <<"\\", "b">>

\* The piece the pattern matched for a macro of letters: the name and the
\* blanks it took; a letter right after the name stands for a blank and the
\* letter.
pieceText(m, blanks, rest) ==
    NameChars(m) \o Spaces(blanks)
        \o (IF blanks = 0 /\ rest # <<>> /\ Head(rest) \in Letters THEN <<" ">> ELSE <<>>)

\* \def, of type sub
Define ==
    /\ CanTake
    /\ ~Redefined
    /\ Taken.piece = <<"\\def">>
    /\ Assign(def_exp(Taken.st, defs).st)
    /\ defs' = def_exp(Taken.st, defs).defs
    /\ UNCHANGED <<pc, defcount, held>>

\* A token of type def: its body goes back in front of the input, unless
\* the paragraph has met more than maxdef of them; then the loop stops and
\* what is buffered is flushed.
Expand ==
    /\ CanTake
    /\ Redefined
    /\ defcount' = defcount + 1
    /\ IF overCeiling(defcount + 1)
       THEN /\ Assign(IF out # <<>> THEN call("finishBuffer", <<Taken.st>>) ELSE Taken.st)
            /\ pc' = "flush"
       ELSE /\ Assign([Taken.st EXCEPT !.par = defs[Taken.piece[1]] \o @])
            /\ UNCHANGED pc
    /\ UNCHANGED <<defs, held>>

\* The tokens of type discard1 and discard2
Discard ==
    /\ CanTake
    /\ ~Redefined
    /\ Taken.piece[1] \in {"\\hphantom", "\\setcounter"}
    /\ Assign(tokenMode(start(Taken.st, IF Taken.piece[1] = "\\hphantom" THEN "1" ELSE "2",
                               "f_discard")))
    /\ held' = out
    /\ UNCHANGED <<pc, defs, defcount>>

\* A macro no table knows is put out as it stands
Unknown ==
    /\ CanTake
    /\ ~Redefined
    /\ Taken.piece[1] \in {"\\a", "\\b"}
    /\ Update(call("puts", <<Taken.st, pieceText(Taken.piece[1], Taken.taken - 1, Taken.st.par)>>))
    /\ UNCHANGED pc

\* The state after reset_state() and init_symbols(), with the configuration
\* of the run: no macro is defined yet.
InitRunWith(widths, flags, ceilings) ==
    /\ level = <<0>> /\ chunks = <<0>> /\ tokenByToken = <<0>> /\ out = <<>>
    /\ wait = <<"">> /\ action = <<"">> /\ curlength = 0
    /\ printed = <<>> /\ err = "none" /\ obs = <<>> /\ pc = "start"
    /\ linelength \in widths
    /\ opt_noindent \in flags
    /\ fn = "paragraph" /\ ret = empty
    /\ defs = NoDefs /\ defcount = 0 /\ held = <<>>
    /\ maxdef \in ceilings

\* The run with the ceiling of config.py
InitRun(widths, flags) == InitRunWith(widths, flags, {maxdefDefault})

\* The start of a run on one paragraph.
InitParagraph(pars, widths, flags) ==
    /\ InitRun(widths, flags)
    /\ par \in pars
    /\ args = par

\* --- any input

\* Longest input of the specification over all token sequences.
MaxLen == 3

Alphabet ==
    {"a", " ", "+", "(", "{", "}", "$", "^", "_", "\\frac", "\\over", "\\choose",
     "\\left", "\\right", "\\noindent", "\\relax", "\\int", "\\{"}

RECURSIVE SeqsUpTo(_, _)
SeqsUpTo(S, n) ==
    IF n = 0 THEN {<<>>}
    ELSE LET shorter == SeqsUpTo(S, n - 1)
         IN shorter \cup {Append(s, a) : s \in {x \in shorter : Len(x) = n - 1}, a \in S}

InitInterp == InitParagraph(SeqsUpTo(Alphabet, MaxLen), {150}, BOOLEAN)

NextInterp == ParagraphStart \/ Token \/ ParagraphEnd \/ MainFlush

SpecInterp == InitInterp /\ [][NextInterp]_vars

\* C10: for every sequence of input tokens, well-formed or malformed,
\* interpretation never reaches an error state: no handler indexes the output
\* buffer, the chunk list or the scope stacks out of range.
C10_NoIndexError == err = "none"

\* What a buffer shows, blanks aside: the rows of its records joined.
Shown(recs) ==
    IF recs = <<>> THEN <<>>
    ELSE SelectSeq(JoinAll(recs).s, LAMBDA c : c # " ")

\* C9: a \right taken when no \left scope is open, at depth 1, does not
\* fail: after it no index error is raised, the depth is still 1, no record
\* of the buffer is gone (the buffer shows what it showed, blanks aside),
\* and the loop goes on with the tokens that follow.
C9_StrayRight ==
    \A i \in 1..Len(obs) :
        (obs[i].kind = "right" /\ obs[i].n[1] = 1) =>
            /\ err = "none"
            /\ Len(level) = 1
            /\ Shown(out) = Shown(obs[i].recs)
            /\ out = <<>> <=> obs[i].recs = <<>>
            /\ pc = "loop"
            /\ Len(par) < obs[i].n[2]

\* --- line breaking and justification

\* Longest text and widest line of the specification of the line breaker.
MaxText == 7

MaxLine == 6

InitPrint == InitParagraph(SeqsUpTo({"a", " "}, MaxText), 3..MaxLine, BOOLEAN)

NextPrint == ParagraphStart \/ Text \/ ParagraphEnd \/ MainFlush

SpecPrint == InitPrint /\ [][NextPrint]_vars

\* The lengths of the runs of blanks of a text, in order
RECURSIVE BlankRuns(_)
BlankRuns(s) ==
    IF s = <<>> THEN <<>>
    ELSE IF Head(s) = " " THEN <<Len(s) - Len(LStrip(s))>> \o BlankRuns(LStrip(s))
    ELSE BlankRuns(Tail(s))

\* C3: a non-forced do_print of a line whose unexpanded width is at most
\* linelength and which holds at least one expandable space inserts exactly
\* linelength - width columns of padding, so that the printed line is
\* linelength wide, and each expandable space receives floor(extra / n) or
\* floor(extra / n) + 1 extra columns.
C3_Justified ==
    \A i \in 1..Len(obs) :
        (/\ obs[i].kind = "do_print" /\ ~obs[i].force
         /\ obs[i].n[1] <= linelength /\ obs[i].n[2] >= 1) =>
            /\ SumLen(obs[i].now) - SumLen(obs[i].was) = linelength - obs[i].n[1]
            /\ obs[i].recs[1].l = linelength
            /\ \A k \in 1..Len(obs[i].now) :
                   obs[i].was[k].h = 0 =>
                       \A j \in 1..Len(BlankRuns(obs[i].now[k].s)) :
                           BlankRuns(obs[i].now[k].s)[j] - 1 \in
                               {(linelength - obs[i].n[1]) \div obs[i].n[2],
                                (linelength - obs[i].n[1]) \div obs[i].n[2] + 1}

\* ------------------------------------------- the combinators on their own

\* The interpreter at rest while a combinator is applied on its own.
Idle ==
    /\ level = <<0>> /\ chunks = <<0>> /\ tokenByToken = <<0>> /\ out = <<>>
    /\ wait = <<"">> /\ action = <<"">> /\ curlength = 0 /\ par = <<>>
    /\ linelength = 150 /\ opt_noindent = FALSE /\ printed = <<>>
    /\ err = "none" /\ obs = <<>> /\ pc = "idle"
    /\ defs = NoDefs /\ defcount = 0 /\ maxdef = maxdefDefault /\ held = <<>>

\* A block of h rows of width w with baseline b; row i is filled with digit i.
Block(h, w, b) ==
    [h |-> h, l |-> w, b |-> b, sp |-> 0,
     s |-> JoinNL([i \in 1..h |->
                     Rep(<<"1", "2", "3", "4", "5", "6", "7", "8", "9">>[i], w)])]

Blocks == UNION {{Block(h, w, b) : w \in 1..MaxW, b \in 0..(h - 1)} : h \in 1..MaxH}

\* One-row records as puts makes them from text.
Texts == {string2record(s, FALSE) :
            s \in {<<"a">>, <<"a", "b">>, <<"a", " ", "b">>, <<" ">>}}

\* Angle brackets: the tip typed as text, and brackets as \left and \right
\* leave them, with the margin either of them adds.
Angles ==
    {string2record(<<"u27E8">>, FALSE), string2record(<<"u27E9">>, FALSE)}
    \cup UNION {{call("makehigh_inplace", <<string2record(<<k>>, FALSE), h, b, m[1], m[2]>>) :
                    k \in {"<", ">"}, b \in 0..(h - 1),
                    m \in {<<0, 0>>, <<0, 1>>, <<1, 0>>}} : h \in 3..MaxH}

RecSet == Blocks \cup Texts \cup Angles \cup {empty}

\* --- join_records

InitJoin ==
    /\ Idle
    /\ fn = "none"
    /\ args \in RecSet \X RecSet
    /\ ret = empty

ApplyJoin ==
    /\ fn = "none"
    /\ fn' = "join_records"
    /\ ret' = join_records(args[1], args[2])
    /\ UNCHANGED <<interp, args>>

SpecJoin == InitJoin /\ [][ApplyJoin]_vars

\* Row b of a record as a reader of the record sees it.
RowAt(rec, b) == Rows(rec.s, <<>>, get_height(rec))[b + 1]

HasTip(rec) == Has(rec.s, "u27E8") \/ Has(rec.s, "u27E9")

\* The operand is one the join redraws: a narrow record holding an angle
\* tip (and an arm, when taller than two rows), shorter than the result.
Redrawn(rec, res) ==
    /\ get_height(rec) < res.h
    /\ rec.l <= 6
    /\ HasTip(rec)
    /\ Has(rec.s, "u29F8") \/ Has(rec.s, "u29F9") \/ get_height(rec) <= 2

\* The width an operand takes in the join: its own, or, when it is redrawn
\* as an angle bracket at the joined height and baseline, the width of the
\* new bracket if that is larger.
OperandWidth(rec, res) ==
    IF Redrawn(rec, res)
    THEN Max(rec.l, Max(res.b, res.h - res.b - 1) + 1)
    ELSE rec.l

\* C1: join_records(a, b) has baseline max(a.baseline, b.baseline), height
\* baseline + max(a.height - a.baseline - 1, b.height - b.baseline - 1) + 1,
\* and the baseline rows of both operands land on the baseline row of the
\* result: the left operand's in the leftmost columns, the right operand's
\* after it (an operand redrawn as an angle bracket has its tip there).
C1_JoinBaseline ==
    fn = "join_records" =>
        LET a == args[1]
            b == args[2]
            ha == get_height(a)
            hb == get_height(b)
            base == RowAt(ret, ret.b)
            rowb == RowAt(b, b.b)
            wa == OperandWidth(a, ret)
        IN /\ ret.b = Max(a.b, b.b)
           /\ ret.h = Max(a.b, b.b) + Max(ha - a.b - 1, hb - b.b - 1) + 1
           /\ Len(SplitNL(ret.s)) = ret.h
           /\ IF Redrawn(a, ret)
              THEN \E i \in 1..wa : base[i] \in {"u27E8", "u27E9"}
              ELSE Take(base, wa) = LJust(RowAt(a, a.b), a.l)
           /\ IF Redrawn(b, ret)
              THEN \E i \in (wa + 1)..Len(base) : base[i] \in {"u27E8", "u27E9"}
              ELSE Drop(base, wa) = (IF rowb = <<>> THEN Spaces(b.l) ELSE rowb)

\* Both operands have several rows, with different baselines and different
\* extents below them, so that each is padded on one side.
C1_Witness ==
    /\ fn = "join_records"
    /\ args[1].h = 3 /\ args[1].b = 0 /\ args[1].l = 2
    /\ args[2].h = 3 /\ args[2].b = 2 /\ args[2].l = 1
    /\ ~HasTip(args[1]) /\ ~HasTip(args[2])
    /\ ret.h = 5 /\ ret.b = 2

\* C2 as stated: the joined width is the sum of the operands' widths.
C2_WidthIsSum ==
    fn = "join_records" => ret.l = args[1].l + args[2].l

\* C2: the width of join_records(a, b) is a.width + b.width when neither
\* operand is redrawn as an angle bracket; an operand that is redrawn counts
\* with the larger of its own width and max(b, h - b - 1) + 1 at the joined
\* height h and baseline b, so the joined width is never below the sum.
C2_JoinWidth ==
    fn = "join_records" =>
        /\ ret.l = OperandWidth(args[1], ret) + OperandWidth(args[2], ret)
        /\ ret.l >= args[1].l + args[2].l
        /\ (~Redrawn(args[1], ret) /\ ~Redrawn(args[2], ret)
              => ret.l = args[1].l + args[2].l)
        /\ \A i \in 1..ret.h : Len(SplitNL(ret.s)[i]) <= ret.l

\* A one-column tip joined with a taller record is redrawn two columns wide.
C2_Witness ==
    /\ fn = "join_records"
    /\ args[1] = string2record(<<"u27E8">>, FALSE)
    /\ args[2] = Block(3, 2, 1)
    /\ ret.l = 4

\* --- center

InitCenter ==
    /\ Idle
    /\ fn = "none"
    /\ args \in (0..(MaxW + MaxPad)) \X (Blocks \cup Texts \cup {empty})
    /\ ret = empty

ApplyCenter ==
    /\ fn = "none"
    /\ fn' = "center"
    /\ ret' = center(args[1], args[2])
    /\ UNCHANGED <<interp, args>>

SpecCenter == InitCenter /\ [][ApplyCenter]_vars

\* C4: center is idempotent and never truncates: for w >= r.width,
\* center(w, center(w, r)) = center(w, r); for w <= r.width, center(w, r) is
\* r unchanged; and every row of r is found whole in the same row of the
\* result.
C4_CenterIdempotent ==
    fn = "center" =>
        LET w == args[1]
            r == args[2]
            rows == Rows(r.s, << <<>> >>, get_height(r))
            res == Rows(ret.s, << <<>> >>, get_height(ret))
        IN /\ w >= r.l => center(w, ret) = ret
           /\ w <= r.l => ret = r
           /\ ret.l >= r.l
           /\ Len(res) = Len(rows)
           /\ \A i \in 1..Len(rows) : IsSubstr(rows[i], res[i])

\* A record of several rows centered in a width that leaves an odd number
\* of columns to share out.
C4_Witness ==
    /\ fn = "center"
    /\ args[2].h = 2 /\ args[2].l = 2
    /\ args[1] = 5
    /\ ret.l = 5 /\ ret # args[2]

\* --- angle brackets

InitAngle ==
    /\ Idle
    /\ fn = "none"
    /\ args \in {a \in {"<", ">"} \X (1..MaxAngleH) \X (0..(MaxAngleH - 1))
                       \X {<<0, 0>>, <<0, 1>>, <<1, 0>>} : a[3] < a[2]}
    /\ ret = empty

ApplyRegenerate ==
    /\ fn = "none"
    /\ fn' = "regenerate_angle_bracket"
    /\ ret' = regenerate_angle_bracket(args[1], args[2], args[3])
    /\ UNCHANGED <<interp, args>>

ApplyMakeHigh ==
    /\ fn = "none"
    /\ fn' = "makehigh_inplace"
    /\ ret' = call("makehigh_inplace", <<string2record(<<args[1]>>, FALSE), args[2],
                                         args[3], args[4][1], args[4][2]>>)
    /\ UNCHANGED <<interp, args>>

SpecAngle == InitAngle /\ [][ApplyRegenerate \/ ApplyMakeHigh]_vars

\* The widest row, trailing blanks not counted.
RenderedWidth(lines) ==
    CHOOSE w \in {Len(RStrip(lines[i])) : i \in 1..Len(lines)} :
        \A i \in 1..Len(lines) : Len(RStrip(lines[i])) <= w

\* C5: an angle bracket generated with h rows and its tip on row b is
\* max(b, h - b - 1) + 1 columns wide as rendered, and that width is
\* non-decreasing in max(b, h - b - 1): no bracket generated with fewer rows
\* around the same tip row, or with a smaller farthest arm, is wider.  The
\* same holds for the bracket \left and \right put in the buffer, whose
\* width is the generated one plus the margin.
C5_AngleWidth ==
    LET k == args[1]
        h == args[2]
        b == args[3]
        far(hh, bb) == Max(bb, hh - bb - 1)
        high(hh) == makehigh_inplace(string2record(<<k>>, FALSE), hh, b,
                                     args[4][1], args[4][2])
    IN /\ fn = "regenerate_angle_bracket" =>
            /\ ret.w = far(h, b) + 1
            /\ Len(ret.lines) = h
            /\ RenderedWidth(ret.lines) = far(h, b) + 1
            /\ \A h1 \in (b + 1)..(h - 1) :
                   RenderedWidth(regenerate_angle_bracket(k, h1, b).lines)
                       <= RenderedWidth(ret.lines)
            /\ \A h1 \in 1..MaxAngleH : \A b1 \in 0..(h1 - 1) :
                   far(h1, b1) <= far(h, b) =>
                       RenderedWidth(regenerate_angle_bracket(k, h1, b1).lines)
                           <= RenderedWidth(ret.lines)
       /\ fn = "makehigh_inplace" =>
            /\ h >= 3 => /\ ret.l = far(h, b) + 1 + args[4][1] + args[4][2]
                         /\ RenderedWidth(SplitNL(ret.s)) =
                                far(h, b) + 1 + args[4][1]
            /\ \A h1 \in (b + 1)..(h - 1) : high(h1).l <= ret.l

\* A right bracket whose tip is neither on the first nor on the last row,
\* with more rows above the tip than below.
C5_Witness ==
    /\ fn = "regenerate_angle_bracket"
    /\ args[1] = ">" /\ args[2] = 5 /\ args[3] = 3
    /\ ret.w = 4

\* --- fractions

\* Longest text argument of a builder in the specifications of the builders.
MaxArg == 2

Group(x) == <<"{">> \o x \o <<"}">>

\* Arguments of a fraction: short texts, a wide and a narrow one, a fraction
\* and a record of three rows.
FracParts ==
    (SeqsUpTo({"a", "b"}, MaxArg) \ {<<>>})
        \cup {<<"a", "+", "b">>, <<"c">>, <<"\\frac", "a", "b">>, <<"\\int">>}

FracBefore == {<<>>, <<"x">>, <<"x", " ">>, <<"x", "+">>, <<"$">>, <<"$", "x">>}

FracAfter == {<<>>, <<"y">>, <<"+", "y">>, <<" ", "y">>, <<"(", "y">>}

FracText(c) ==
    c.pre \o <<"\\frac">> \o Group(c.numer) \o Group(c.denom) \o c.post

InitFrac ==
    /\ InitRun({150}, BOOLEAN)
    /\ args \in [pre : FracBefore, numer : FracParts, denom : FracParts, post : FracAfter]
    /\ par = FracText(args)

NextFrac ==
    \/ ParagraphStart \/ Text \/ OpenCurly \/ CloseCurly \/ Dollar \/ SubN \/ Record
    \/ ParagraphEnd \/ MainFlush

SpecFrac == InitFrac /\ [][NextFrac]_vars

Bar(w) == Rep("u2500", w)

\* Row i (from 0) of part in w columns, with floor of half the difference
\* of the widths to its left.
Centered(part, w, i) == LJust(Spaces((w - part.l) \div 2) \o RowAt(part, i), w)

\* Row i (from 1) of the fraction of numer over denom in w columns.
FractionRow(numer, denom, w, i) ==
    IF i <= get_height(numer) THEN Centered(numer, w, i - 1)
    ELSE IF i = get_height(numer) + 1 THEN Bar(w)
    ELSE Centered(denom, w, i - get_height(numer) - 2)

\* The fraction of event e as the builder leaves it: one record in place of
\* the two arguments, of height hn + 1 + hd and baseline hn, its rows those
\* of the fraction after lead blank columns.
FractionBuilt(e, lead) ==
    LET numer == e.recs[1]
        denom == e.recs[2]
        res == e.recs[4]
        w == Max(numer.l, denom.l)
    IN /\ res.h = get_height(numer) + 1 + get_height(denom)
       /\ res.b = get_height(numer)
       /\ Len(SplitNL(res.s)) = res.h
       /\ \A i \in 1..res.h :
             RStrip(RowAt(res, i - 1))
                 = RStrip(Spaces(lead) \o FractionRow(numer, denom, w, i))
       /\ e.now = Upto(e.was, Len(e.was) - 2) \o <<res>>

\* \frac{a+b}{c} alone on a line
FracAlone(c) ==
    c.pre = <<>> /\ c.numer = <<"a", "+", "b">> /\ c.denom = <<"c">> /\ c.post = <<>>

FracAloneRecord ==
    [h |-> 3, l |-> 3, b |-> 1, sp |-> 0,
     s |-> JoinNL(<< <<"a", "+", "b">>, Bar(3), <<" ", "c", " ">> >>)]

\* The record before the two arguments ends in a character that is neither
\* a blank nor one of + - = ( < [ {
SpaceBefore(e) ==
    /\ Len(e.was) >= 3
    /\ e.was[Len(e.was) - 2].l > 0
    /\ e.was[Len(e.was) - 2].s # <<>>
    /\ Last(e.was[Len(e.was) - 2].s) \notin {" ", "+", "-", "=", "(", "<", "[", "{"}

\* The input after the fraction begins, blanks aside, with a letter, with one
\* of ( [ <, or with a macro other than \right.
SpaceAfter(e) ==
    /\ LStrip(e.par) # <<>>
    /\ Head(LStrip(e.par)) \in Letters \cup {"(", "[", "<"} \cup (AlphaMacros \ {"\\right"})

\* C6: every fraction the builder makes from a numerator (hn, wn) and a
\* denominator (hd, wd) replaces the two records by one of height
\* hn + 1 + hd and baseline hn whose row hn is a bar of max(wn, wd) dashes,
\* with the rows of numerator and denominator centered in the max(wn, wd)
\* columns of the bar, floor of half the difference to the left.  The
\* columns of the fraction stand in the record after the blank column the
\* builder puts after a record ending in a character other than a blank and
\* + - = ( < [ {, and before the one it puts where the input goes on with a
\* letter, ( [ < or a macro other than \right; \frac{a+b}{c} alone gives
\* width 3, baseline 1 and the rows "a+b", three dashes, " c ".  The fraction
\* is built as soon as the denominator is closed.
C6_Fraction ==
    /\ \A i \in 1..Len(obs) :
          obs[i].kind = "f_fraction" =>
              /\ FractionBuilt(obs[i], IF SpaceBefore(obs[i]) THEN 1 ELSE 0)
              /\ obs[i].recs[4].l
                     = Max(obs[i].recs[1].l, obs[i].recs[2].l)
                       + (IF SpaceBefore(obs[i]) THEN 1 ELSE 0)
                       + (IF SpaceAfter(obs[i]) THEN 1 ELSE 0)
    /\ \A i \in 1..Len(obs) :
          (obs[i].kind = "f_fraction" /\ FracAlone(args)) => obs[i].recs[4] = FracAloneRecord
    /\ (pc = "loop" /\ Len(par) = Len(args.post)) =>
          /\ err = "none"
          /\ obs # <<>>
          /\ Last(obs).kind = "f_fraction"
          /\ Last(obs).recs[4] = Last(out)
          /\ args.numer \in SeqsUpTo({"a", "b"}, MaxArg)
                => Last(obs).recs[1] = string2record(args.numer, FALSE)
          /\ args.denom \in SeqsUpTo({"a", "b"}, MaxArg)
                => Last(obs).recs[2] = string2record(args.denom, FALSE)

\* A fraction of a wide numerator over a narrow denominator between a letter
\* and a letter.
C6_Witness ==
    \E i \in 1..Len(obs) :
        /\ obs[i].kind = "f_fraction"
        /\ obs[i].recs[1].l = 3 /\ obs[i].recs[2].l = 1
        /\ obs[i].n = <<1>>
        /\ obs[i].recs[4].l = 5
        /\ obs[i].recs[4] = Last(out)
        /\ err = "none"

\* --- superscript with subscript

\* A script as it is written and the record it is collected into: a letter,
\* a text in braces, or \int, a record of three rows.
ScriptParts ==
    {[tok |-> x, rec |-> string2record(x, FALSE)] :
        x \in {y \in SeqsUpTo({"a", "b"}, MaxArg) : Len(y) = 1}}
    \cup {[tok |-> Group(x), rec |-> string2record(x, FALSE)] :
             x \in SeqsUpTo({"a", "b"}, MaxArg) \ {<<>>}}
    \cup {[tok |-> <<"\\int">>, rec |-> intRecord]}

\* The base with both scripts in either order, in the paragraph, in inline
\* mathematics, or in braces in inline mathematics.
ScriptText(c) ==
    (IF c.ctx = 0 THEN <<>> ELSE IF c.ctx = 1 THEN <<"$">> ELSE <<"$", "{">>)
    \o <<"x">>
    \o (IF c.order = "^_" THEN <<"^">> \o c.sup.tok \o <<"_">> \o c.sub.tok
        ELSE <<"_">> \o c.sub.tok \o <<"^">> \o c.sup.tok)
    \o (IF c.ctx = 0 THEN <<>> ELSE IF c.ctx = 1 THEN <<"$">> ELSE <<"}", "$">>)

InitScript ==
    /\ InitRun({150}, BOOLEAN)
    /\ args \in [sup : ScriptParts, sub : ScriptParts, order : {"^_", "_^"}, ctx : 0..2]
    /\ par = ScriptText(args)

NextScript ==
    \/ ParagraphStart \/ Text \/ OpenCurly \/ CloseCurly \/ Dollar \/ SubN \/ Record
    \/ ParagraphEnd \/ MainFlush

SpecScript == InitScript /\ [][NextScript]_vars

\* The rows of sup, one empty row, the rows of sub
ScriptRows(sup, sub) ==
    Rows(sup.s, << <<>> >>, get_height(sup)) \o << <<>> >>
        \o Rows(sub.s, << <<>> >>, get_height(sub))

\* The one record of a superscript sup with a subscript sub; in the outer
\* groups its rows are filled to the width and one blank column more.
ScriptStack(sup, sub, spaced) ==
    [h |-> get_height(sup) + 1 + get_height(sub),
     b |-> get_height(sup),
     l |-> Max(sup.l, sub.l) + (IF spaced THEN 1 ELSE 0),
     sp |-> 0,
     s |-> JoinNL(IF spaced
                  THEN [i \in 1..Len(ScriptRows(sup, sub)) |->
                           LJust(ScriptRows(sup, sub)[i], Max(sup.l, sub.l)) \o <<" ">>]
                  ELSE ScriptRows(sup, sub))]

\* C7: a superscript and a subscript on the same base are combined into one
\* record in place of the two: the rows of the superscript, one blank row,
\* the rows of the subscript, the baseline on the blank row (its index the
\* height of the superscript).  The record is the same for ^ then _ and for
\* _ then ^: it is a function of the two scripts and the depth of the group
\* alone, it is built as soon as the second script is read, and the printed
\* line is the base followed by it.
C7_SupSub ==
    /\ \A i \in 1..Len(obs) :
          obs[i].kind = "sup_sub" =>
              LET res == obs[i].recs[3]
                  hs == get_height(args.sup.rec)
                  hb == get_height(args.sub.rec)
              IN /\ res = ScriptStack(args.sup.rec, args.sub.rec, args.ctx <= 1)
                 /\ res.h = hs + 1 + hb
                 /\ res.b = hs
                 /\ Len(SplitNL(res.s)) = res.h
                 /\ \A r \in 0..(hs - 1) :
                       RStrip(RowAt(res, r)) = RStrip(RowAt(args.sup.rec, r))
                 /\ RStrip(RowAt(res, hs)) = <<>>
                 /\ \A r \in 0..(hb - 1) :
                       RStrip(RowAt(res, hs + 1 + r)) = RStrip(RowAt(args.sub.rec, r))
                 /\ obs[i].now = Upto(obs[i].was, Len(obs[i].was) - 2) \o <<res>>
    /\ (pc = "loop" /\ Len(par) = (IF args.ctx = 0 THEN 0 ELSE args.ctx)) =>
          /\ err = "none"
          /\ obs # <<>>
          /\ Last(obs).kind = "sup_sub"
          /\ Last(obs).recs[3] = Last(out)
    /\ pc = "done" =>
          /\ err = "none"
          /\ Len(printed) = 1
          /\ printrecord(printed[1])
                = printrecord(JoinAll(<<string2record(<<"x">>, FALSE),
                                        ScriptStack(args.sup.rec, args.sub.rec,
                                                    args.ctx <= 1)>>))

\* The subscript is written first and the superscript, of three rows, second.
C7_Witness ==
    \E i \in 1..Len(obs) :
        /\ obs[i].kind = "sup_sub"
        /\ args.order = "_^"
        /\ args.sup.rec = intRecord
        /\ args.sub.rec.l = 2
        /\ obs[i].recs[3].h = 5 /\ obs[i].recs[3].b = 3
        /\ obs[i].recs[3] = Last(out)
        /\ err = "none"

\* --- \left and \right

\* The delimiters as they are written
Delims == {"(", ")", "[", "]", "\\{", "\\}", "|", "<", ">"}

\* The character a delimiter stands for
DelimChar(d) == IF d = "\\{" THEN "{" ELSE IF d = "\\}" THEN "}" ELSE d

\* Contents of one, two, three and five rows
Contents ==
    {<<"a">>, <<"x", "^", "2">>, <<"\\frac", "{", "1", "}", "{", "2", "}">>, <<"\\int">>,
     <<"\\frac", "{", "\\frac", "a", "b", "}", "c">>}

LRText(c) ==
    c.pre \o <<"\\left", c.d1>> \o c.content \o <<"\\right", c.d2>> \o c.post

InitLR ==
    /\ InitRun({150}, BOOLEAN)
    /\ args \in [pre : {<<>>, <<"x">>}, d1 : Delims, content : Contents, d2 : Delims,
                 post : {<<>>, <<"y">>}]
    /\ par = LRText(args)

NextLR ==
    \/ ParagraphStart \/ Text \/ OpenCurly \/ CloseCurly \/ SubN \/ LeftDelim
    \/ RightDelim \/ Self \/ Record \/ ParagraphEnd \/ MainFlush

SpecLR == InitLR /\ [][NextLR]_vars

\* The least height at which a delimiter is stretched
Threshold(c) == IF c \in {"(", ")", "<", ">"} THEN 3 ELSE 2

\* The delimiter d is regenerated as r at height h and baseline b when h is
\* at or above its threshold, and left alone below it.
Regenerated(d, r, h, b) ==
    IF h >= Threshold(d.s[1])
    THEN /\ r # d
         /\ get_height(r) = h /\ r.h = h /\ r.b = b
         /\ Len(SplitNL(r.s)) = h
    ELSE r = d

\* \left(\frac{1}{2}\right)
LRAlone(c) ==
    /\ c.pre = <<>> /\ c.post = <<>> /\ c.d1 = "(" /\ c.d2 = ")"
    /\ c.content = <<"\\frac", "{", "1", "}", "{", "2", "}">>

\* C8: for \left d1 content \right d2 with d1 and d2 among ( ) [ ] { } | < >,
\* once the second delimiter is committed both delimiters are regenerated to
\* the height h and baseline b of the content (as framed to three rows
\* between [ and ] when it has fewer), where h reaches the threshold of the
\* delimiter, so that the three records have the same height and baseline;
\* for \left(\frac{1}{2}\right) both parentheses have height 3 and baseline 1.
C8_LeftRight ==
    /\ \A i \in 1..Len(obs) :
          obs[i].kind = "f_leftright" =>
              LET d1 == obs[i].recs[1]
                  mid == obs[i].recs[2]
                  d2 == obs[i].recs[3]
                  opening == obs[i].recs[4]
                  content == obs[i].recs[5]
                  closing == obs[i].recs[6]
                  h == get_height(content)
              IN /\ d1.s = <<DelimChar(args.d1)>> /\ d2.s = <<DelimChar(args.d2)>>
                 /\ IF d1.s = <<"[">> /\ d2.s = <<"]">> /\ get_height(mid) < 3
                    THEN h = 3 /\ content.l = mid.l
                    ELSE content = mid
                 /\ Regenerated(d1, opening, h, content.b)
                 /\ Regenerated(d2, closing, h, content.b)
                 /\ (h >= 3 => /\ get_height(opening) = h /\ get_height(closing) = h
                               /\ opening.b = content.b /\ closing.b = content.b)
                 /\ obs[i].now
                        = Upto(obs[i].was, Len(obs[i].was) - 3)
                          \o <<opening, content, closing>>
                 /\ LRAlone(args) =>
                       /\ opening.h = 3 /\ opening.b = 1
                       /\ closing.h = 3 /\ closing.b = 1
                       /\ content.h = 3 /\ content.b = 1
    /\ (pc = "loop" /\ Len(par) = Len(args.post)) =>
          /\ err = "none"
          /\ \E i \in 1..Len(obs) : obs[i].kind = "f_leftright"

\* \left(\frac{1}{2}\right) with both parentheses redrawn on three rows
C8_Witness ==
    \E i \in 1..Len(obs) :
        /\ obs[i].kind = "f_leftright"
        /\ LRAlone(args)
        /\ obs[i].recs[4].h = 3 /\ obs[i].recs[4].b = 1
        /\ obs[i].recs[6].h = 3 /\ obs[i].recs[6].b = 1
        /\ obs[i].recs[4] # obs[i].recs[1]
        /\ err = "none"

\* ------------------------------------------------ the ceiling on expansions

MaxDef == 3
MaxBody == 2

\* What the body of \a is made of
BodyAtoms == {"x", "^", "\\a", "\\b"}

\* \def\name{body}
Definition(name, body) == <<"\\def", name, "{">> \o body \o <<"}">>

\* Bodies of \b; <<"-">> stands for no definition of \b at all
OtherBodies == {<<"-">>, <<>>, <<"\\a">>, <<"x", "\\b">>}

DefTails == {<<"\\a">>, <<"\\a", "y">>, <<"\\b">>, <<"y", " ", "\\a">>}

\* A paragraph that defines \a, defines \b or not, and then uses them
DefText(a) ==
    Definition("\\a", a[1])
        \o (IF a[2] = <<"-">> THEN <<>> ELSE Definition("\\b", a[2]))
        \o a[3]

InitDef ==
    /\ InitRunWith({150}, {TRUE}, 1..MaxDef)
    /\ args \in SeqsUpTo(BodyAtoms, MaxBody) \X OtherBodies \X DefTails
    /\ par = DefText(args)

NextDef ==
    \/ ParagraphStart \/ Text \/ SubN \/ Define \/ Expand \/ Unknown
    \/ ParagraphEnd \/ MainFlush

SpecDef == InitDef /\ [][NextDef]_vars

\* A step of NextDef can be taken: the run has neither ended nor failed
Running == pc # "done" /\ err = "none"

\* paragraph() and main() run on: a step that can be taken is taken.  This
\* is weak fairness of NextDef, with Running written for ENABLED <<NextDef>>_vars.
SpecDefFair == SpecDef /\ ([]<>~Running \/ []<><<NextDef>>_vars)

\* The step puts a macro body back in front of the input
Expands == defcount' = defcount + 1 /\ pc' = "loop"

\* The step meets a macro call beyond the ceiling
Stops == defcount' = defcount + 1 /\ defcount' > maxdef

\* C11: paragraph() terminates on every input, self-referential macros
\* included: no more than maxdef expansions are made in one call, the macro
\* call after them stops the loop without an error and with the buffer
\* flushed, and the run comes to its end.
C11_Ceiling ==
    /\ [][/\ Expands => defcount' <= maxdef
          /\ Stops => /\ defcount' = maxdef + 1
                      /\ pc' = "flush" /\ err' = "none"
                      /\ out' = <<>>
                      /\ out # <<>> => printed' # printed]_vars
    /\ <>(pc = "done" /\ err = "none")

\* The ceiling stopped a paragraph that had output buffered
C11_Witness ==
    /\ defcount = maxdef + 1
    /\ pc = "flush"
    /\ printed # <<>>
    /\ par # <<>>

\* --------------------------------------------------- finishBuffer at the end

\* C12: at end of input finishBuffer closes every scope still open, whatever
\* it waits for, and flushes: afterwards the stack depth is 1, the output
\* buffer is empty, the chunk list is [0] and the tracked line length is 0.
C12_Flushed ==
    pc = "done" =>
        /\ err = "none"
        /\ Len(level) = 1
        /\ out = <<>>
        /\ chunks = <<0>>
        /\ curlength = 0

\* ------------------------------------------------- the scope stack, by call

MaxDepth == 3
MaxOut == 2

\* start(event, act) as the package calls it
StackStarts ==
    {<<"}", "">>, <<"1", "">>, <<"2", "">>, <<"1", "f_discard">>, <<"2", "f_discard">>}

StackRecords == {string2record(<<"a">>, FALSE), empty, intRecord}

\* The state after the call fn(...), made at the depth args[1]
Called(st, name) ==
    /\ level' = st.level /\ chunks' = st.chunks /\ tokenByToken' = st.tbt
    /\ out' = st.out /\ wait' = st.wait /\ action' = st.action
    /\ curlength' = st.curlength /\ par' = st.par /\ printed' = st.printed
    /\ err' = st.err /\ obs' = st.obs
    /\ fn' = name /\ args' = <<Len(level)>>
    /\ UNCHANGED <<linelength, opt_noindent, pc, ret, defs, defcount, maxdef, held>>

StackStart ==
    /\ err = "none" /\ Len(level) < MaxDepth /\ Len(chunks) <= MaxOut
    /\ \E e \in StackStarts : Called(start(State, e[1], e[2]), "start")

StackCommit ==
    /\ err = "none" /\ Len(out) < MaxOut /\ Len(chunks) <= MaxOut
    /\ \E r \in StackRecords : Called(call("commit", <<State, r>>), "commit")

StackFinish ==
    /\ err = "none"
    /\ \E force \in BOOLEAN : Called(call("finish", <<State, force>>), "finish")

StackFinishIgnore ==
    /\ err = "none"
    /\ Called(finish_ignore(State), "finish_ignore")

InitStack == Idle /\ fn = "reset_state" /\ args = <<1>> /\ ret = empty

NextStack == StackStart \/ StackCommit \/ StackFinish \/ StackFinishIgnore

SpecStack == InitStack /\ [][NextStack]_vars

\* C13: after any sequence of start, commit, finish and finish_ignore,
\* closings beyond the openings included, the stack holds at least one frame
\* and its bottom frame is the document root; finish and finish_ignore at
\* depth 1 change nothing.
C13_RootStays ==
    /\ [](Len(level) >= 1 /\ level[1] = 0)
    /\ [][(Len(level) = 1 /\ fn' \in {"finish", "finish_ignore"})
           => UNCHANGED <<level, chunks, tokenByToken, out, wait, action, curlength>>]_vars

\* A closing call came at depth 1, with records in the buffer
C13_Witness ==
    /\ fn \in {"finish", "finish_ignore"}
    /\ args = <<1>>
    /\ Len(out) > 1
    /\ Len(level) = 1

\* ------------------------------------------------------------ empty groups

\* What a group of an argument-collecting command holds; it may hold nothing
EmptyParts == {<<>>, <<" ">>, <<"a">>, <<"b">>}

\* A command that collects arguments, two groups, and the text after them
InitEmpty ==
    /\ InitRun({150}, {TRUE})
    /\ args \in [pre : {<<>>, <<"x">>}, head : {"\\frac", "^", "_"},
                  first : EmptyParts, second : EmptyParts,
                  post : {<<>>, <<"c">>, <<"c", "d">>}]
    /\ par = args.pre \o <<args.head>> \o Group(args.first) \o Group(args.second)
                \o args.post

NextEmpty ==
    \/ ParagraphStart \/ Text \/ OpenCurly \/ CloseCurly \/ SubN
    \/ ParagraphEnd \/ MainFlush

SpecEmpty == InitEmpty /\ [][NextEmpty]_vars

\* The step takes the } of a group into which nothing was committed
EmptyGroupCloses ==
    /\ CanTake
    /\ Taken.piece = <<"}">>
    /\ Len(level) > 1
    /\ Last(wait) = "}"
    /\ Len(out) <= chunks[Last(level) + 1]
    /\ err' = "none"

\* C14: when finish closes a scope into which nothing was committed, it
\* first appends an empty record, so the closed scope owns a record and an
\* empty group counts as one argument of the scope that collects arguments:
\* after the second group of \frac{}{b} the fraction builder has run.
C14_EmptyGroup ==
    /\ [][EmptyGroupCloses =>
             \/ Len(out') = Len(out) + 1 /\ Last(out') = empty
             \/ obs' # <<>>]_vars
    /\ [](/\ args.head = "\\frac" /\ pc = "loop" /\ err = "none"
           /\ par = args.post
           => Len(level) = 1)

\* ------------------------------------------------ groups that count chunks

\* The innermost group waits for a number of chunks
Counting == Len(level) > 1 /\ Last(wait) \in {"1", "2"}

\* C15: a group that waits for N chunks fires its callback, or closes when
\* it has none, exactly when the chunks it owns become N, by a commit or by
\* the close of a group inside it, and before the next token is read; it
\* never fires while it owns fewer.
C15_FiresAtN ==
    /\ \A i \in 1..Len(obs) :
          obs[i].kind = "fire" => Dec(obs[i].n[2]) = obs[i].event
    /\ (pc = "loop" /\ err = "none" /\ Counting) => Dec(ownedChunks(State)) # Last(wait)

\* --------------------------------------------------------- discard commands

MaxDiscard == 4

\* What follows a discard command: tokens, groups and fractions
DiscardAtoms == {"a", "{", "}", "\\frac"}

InitDiscard ==
    /\ InitRun({150}, {TRUE})
    /\ args \in [pre : {<<>>, <<"x">>}, head : {"\\hphantom", "\\setcounter"},
                  rest : SeqsUpTo(DiscardAtoms, MaxDiscard)]
    /\ par = args.pre \o <<args.head>> \o args.rest

NextDiscard ==
    \/ ParagraphStart \/ Text \/ OpenCurly \/ CloseCurly \/ SubN \/ Discard
    \/ ParagraphEnd \/ MainFlush

SpecDiscard == InitDiscard /\ [][NextDiscard]_vars

\* C16: once a discardN command has collected its N arguments its scope is
\* popped and the output buffer holds exactly the records it held before the
\* command: what was committed inside is removed, what was there before is
\* unchanged.
C16_Discarded ==
    \A i \in 1..Len(obs) :
        (obs[i].kind = "fire" /\ obs[i].sub = "f_discard" /\ pc = "loop" /\ err = "none") =>
            /\ out = held
            /\ Len(level) = obs[i].n[1] - 1

\* -------------------------------------------------------------- display math

\* What stands between $$ and $$
DisplayBodies ==
    {<<"a">>, <<"a", "+", "b">>, <<"\\frac", "a", "b">>, <<"a", "^", "b">>,
     <<"\\frac">> \o Group(<<"a", "+", "b">>) \o Group(<<"c">>)}

InitDisplay ==
    /\ InitRun({8, 11, 150}, BOOLEAN)
    /\ args \in [pre : {<<>>, <<"x">>, <<"x", " ">>}, body : DisplayBodies,
                  post : {<<>>, <<"y">>}]
    /\ par = args.pre \o <<"$", "$">> \o args.body \o <<"$", "$">> \o args.post

NextDisplay ==
    \/ ParagraphStart \/ Text \/ OpenCurly \/ CloseCurly \/ DDollar \/ SubN
    \/ ParagraphEnd \/ MainFlush

SpecDisplay == InitDisplay /\ [][NextDisplay]_vars

\* Every line begins with n blanks
Padded(lines, n) ==
    \A k \in 1..Len(lines) : Len(lines[k]) >= n /\ Take(lines[k], n) = Spaces(n)

\* C17: a display-math block is emitted centered within linelength: when it
\* is narrower than linelength every printed row of it starts with
\* floor((linelength - width) / 2) columns of padding.
C17_DisplayCentered ==
    \A i \in 1..Len(obs) :
        (obs[i].kind = "display" /\ obs[i].recs[1].l < linelength) =>
            Padded(printrecord(obs[i].recs[2]), (linelength - obs[i].recs[1].l) \div 2)

\* --------------------------------------------------------------- line width

\* Longest input of the specification of line breaking
MaxWrap == 5

WrapAtoms == {"a", " ", "{", "}", "\\frac"}

InitWrap == InitParagraph(SeqsUpTo(WrapAtoms, MaxWrap), {3, 4}, BOOLEAN)

NextWrap ==
    \/ ParagraphStart \/ Text \/ OpenCurly \/ CloseCurly \/ SubN
    \/ ParagraphEnd \/ MainFlush

SpecWrap == InitWrap /\ [][NextWrap]_vars

\* The records of the buffer that belong to the root: those before the
\* first chunk of the scope at depth 2
rootRecords(st) ==
    IF Len(st.level) > 1
    THEN Upto(st.out, IF Ix(st.chunks, st.level[2]) = 0 THEN 0
                      ELSE st.chunks[st.level[2] + 1])
    ELSE st.out

\* C18: no line emitted for paragraph content is wider than linelength, and
\* the total width of the records buffered at the root stays <= linelength
\* whenever records reach the root buffer, an overflowing record being
\* broken first.
C18_WithinWidth ==
    /\ \A i \in 1..Len(printed) :
           \A k \in 1..Len(printrecord(printed[i])) :
               Len(printrecord(printed[i])[k]) <= linelength
    /\ err = "none" => SumLen(rootRecords(State)) <= linelength

\* ------------------------------------------------------------------ accents

\* The constructs of one argument
AccentHeads ==
    {"\\sqrt", "\\overline", "\\underline", "\\hat", "\\tilde", "\\widehat", "^", "_"}

AccentArgs ==
    {<<"a">>, Group(<<"a", "b">>), Group(<<"a", "b", "c">>), Group(<<>>),
     Group(<<"\\frac", "a", "b">>), Group(<<"\\hat", "a">>), Group(<<"\\sqrt", "a">>),
     Group(<<"a", "^", "b">>)}

InitAccent ==
    /\ InitRun({150}, BOOLEAN)
    /\ args \in [pre : {<<>>, <<"x">>}, head : AccentHeads, arg : AccentArgs,
                  post : {<<>>, <<"y">>}]
    /\ par = args.pre \o <<args.head>> \o args.arg \o args.post

NextAccent ==
    \/ ParagraphStart \/ Text \/ OpenCurly \/ CloseCurly \/ SubN
    \/ ParagraphEnd \/ MainFlush

SpecAccent == InitAccent /\ [][NextAccent]_vars

\* C19: every record a combinator or a construct builder stores in the
\* output buffer has 0 <= baseline < effective height.
C19_BaselineInside ==
    \A i \in 1..Len(out) : out[i].b >= 0 /\ out[i].b < get_height(out[i])

\* ------------------------------------------- tex2utf.py beside the package

\* printrecord of tex2utf.py: print(s), the rows of the record as they are
tex2utf_printrecord(rec) == SplitNL(rec.s)

\* The lines tex2utf.py emits for the records handed to printrecord
RECURSIVE tex2utfLines(_)
tex2utfLines(recs) ==
    IF recs = <<>> THEN <<>>
    ELSE tex2utf_printrecord(Head(recs)) \o tex2utfLines(Tail(recs))

\* The lines the package emits for them
RECURSIVE refactorLines(_)
refactorLines(recs) ==
    IF recs = <<>> THEN <<>>
    ELSE printrecord(Head(recs)) \o refactorLines(Tail(recs))

\* C20: for every input the package prints exactly what tex2utf.py prints:
\* on the same tokens the two keep equal stacks and buffers and emit the
\* same lines.
C20_SameLines == refactorLines(printed) = tex2utfLines(printed)

\* ----------------------------------------------------- chunks and frames

\* C21: after any sequence of operations the chunk list is well-formed: it
\* is non-empty, its first entry is 0, its entries are non-decreasing, and
\* no entry exceeds the current length of the output buffer.
C21_ChunksWellFormed ==
    err = "none" =>
        /\ chunks # <<>>
        /\ chunks[1] = 0
        /\ \A i \in 1..(Len(chunks) - 1) : chunks[i] <= chunks[i + 1]
        /\ \A i \in 1..Len(chunks) : chunks[i] <= Len(out)

\* Longest input of the specification of re-grouping
MaxOver == 5

OverAtoms == {"a", "{", "}", "\\over", "\\choose"}

InitOver == InitParagraph(SeqsUpTo(OverAtoms, MaxOver), {150}, {TRUE})

NextOver ==
    \/ ParagraphStart \/ Text \/ OpenCurly \/ CloseCurly \/ Over \/ Choose
    \/ ParagraphEnd \/ MainFlush

SpecOver == InitOver /\ [][NextOver]_vars

\* C22: after any sequence of operations every frame's chunk_start is valid:
\* each entry of level is an index inside the chunk list and level is
\* non-decreasing, in particular after \over or \choose re-groups a brace
\* group that is the first item of its parent scope.
C22_FramesValid ==
    err = "none" =>
        /\ \A i \in 1..Len(level) : level[i] >= 0 /\ level[i] < Len(chunks)
        /\ \A i \in 1..(Len(level) - 1) : level[i] <= level[i + 1]

\* ------------------------------------------------- what a builder touches

\* The output buffer when the construct of the input opens its scope: the
\* paragraph indent and the text before the construct
BufferBefore ==
    (IF opt_noindent THEN <<>> ELSE <<indentRecord>>)
    \o (IF args.pre = <<>> THEN <<>> ELSE <<string2record(args.pre, FALSE)>>)

\* The construct and its argument are read and its scope is closed
ConstructDone ==
    pc = "loop" /\ err = "none" /\ Len(par) <= Len(args.post) /\ Len(level) = 1

\* C23: a construct builder reads and replaces only records owned by its
\* own scope: when a subN scope completes, also with an empty argument
\* group, every record that was in the output buffer before the scope was
\* opened is unchanged.
C23_OwnRecordsOnly ==
    ConstructDone =>
        /\ Len(out) >= Len(BufferBefore)
        /\ Upto(out, Len(BufferBefore)) = BufferBefore

\* ------------------------------------------------------- closing tokens

\* The closing tokens a scope can wait for
ClosingEvents == {"}", "$", "$$", "LeftRight"}

\* The token about to be taken is the closing token tok
Closes(tok) == pc = "loop" /\ err = "none" /\ CanTake /\ ~Redefined /\ Taken.piece = <<tok>>

\* The innermost scope waits for a closing token other than ev
AwaitsOther(ev) == Len(wait) > 1 /\ Last(wait) \in ClosingEvents \ {ev}

\* C24: a scope that waits for a literal closing token is popped only when
\* that token is seen or when the end of the input closes it: a closing token
\* of another kind (} while the innermost scope awaits $, \right while it
\* awaits }) leaves the scope open.
C24_ClosedByOwnToken ==
    [][/\ (Closes("}") /\ AwaitsOther("}") /\ err' = "none") => Len(level') >= Len(level)
       /\ (Closes("\\right") /\ AwaitsOther("LeftRight") /\ err' = "none")
              => Len(level') >= Len(level)]_vars

\* ------------------------------------------------------- tall delimiters

\* Tallest delimiter of the specification
MaxDelimH == 5

RoundSquareCurly == {"(", ")", "[", "]", "{", "}"}

InitDelim ==
    /\ Idle
    /\ fn = "none"
    /\ args \in {a \in RoundSquareCurly \X (1..MaxDelimH) \X (0..(MaxDelimH - 1))
                       \X {<<0, 0>>, <<0, 1>>, <<1, 0>>} : a[3] < a[2]}
    /\ ret = empty

ApplyStretch ==
    /\ fn = "none"
    /\ fn' = "makehigh_inplace"
    /\ ret' = call("makehigh_inplace", <<string2record(<<args[1]>>, FALSE), args[2],
                                         args[3], args[4][1], args[4][2]>>)
    /\ UNCHANGED <<interp, args>>

SpecDelim == InitDelim /\ [][ApplyStretch]_vars

\* The delimiter is stretched: from 3 rows on, from 2 for square and
\* curly brackets
Stretches(k, h) == h >= (IF k \in {"(", ")"} THEN 3 ELSE 2)

\* C25: a round, square or curly delimiter stretched to height h, for every
\* baseline 0 <= b < h, is rendered as exactly h rows with its top-cap glyph
\* on row 0 and its bottom-cap glyph on row h - 1, and for braces the middle
\* glyph on row b.
C25_DelimiterCaps ==
    (fn = "makehigh_inplace" /\ Stretches(args[1], args[2])) =>
        /\ Len(SplitNL(ret.s)) = args[2]
        /\ Has(SplitNL(ret.s)[1], delimiterParts(<<args[1]>>, args[2], args[4][1])[4])
        /\ Has(SplitNL(ret.s)[args[2]],
               delimiterParts(<<args[1]>>, args[2], args[4][1])[5])
        /\ args[1] \in {"{", "}"} =>
               Has(SplitNL(ret.s)[args[3] + 1],
                   delimiterParts(<<args[1]>>, args[2], args[4][1])[6])

\* ------------------------------------------------- short square brackets

\* Contents of one row, of two rows with the baseline on the second and on
\* the first, and of three rows
SquareContents ==
    {<<"a">>, <<"a", "b">>, <<"x", "^", "2">>, <<"x", "_", "2">>,
     <<"x", "_", "2", "y">>, <<"\\frac", "a", "b">>}

InitSquare ==
    /\ InitRun({150}, BOOLEAN)
    /\ args \in [pre : {<<>>, <<"x">>}, d1 : {"[", "("}, content : SquareContents,
                  d2 : {"]", ")"}, post : {<<>>, <<"y">>}]
    /\ par = LRText(args)

NextSquare ==
    \/ ParagraphStart \/ Text \/ SubN \/ LeftDelim \/ RightDelim
    \/ ParagraphEnd \/ MainFlush

SpecSquare == InitSquare /\ [][NextSquare]_vars

\* The baseline row of a record, filled to the record's width
BaselineRow(rec) == LJust(Rows(rec.s, << <<>> >>, get_height(rec))[rec.b + 1], rec.l)

\* C26: when \left[ ... \right] encloses content of fewer than 3 rows, the
\* content is re-framed as a 3-row record with baseline 1 in which the row
\* that was the content's baseline row is the middle row, for content of
\* height 1 and of height 2 with either baseline.
C26_SquareFrame ==
    \A i \in 1..Len(obs) :
        (obs[i].kind = "f_leftright"
         /\ leftrightFramed(obs[i].recs[1], obs[i].recs[2], obs[i].recs[3])) =>
            /\ obs[i].recs[5].h = 3
            /\ obs[i].recs[5].b = 1
            /\ SplitNL(obs[i].recs[5].s)[2] = BaselineRow(obs[i].recs[2])

\* ---------------------------------------------------------------- halign

\* Most rows and most cells of a row of the specification of halign
MaxRows == 2

MaxCols == 2

CellTexts == {<<"a">>, <<"a", "b">>}

\* The arguments endmatrix hands to halign: the gap and the alignments
Gaps == 0..2

Alignments ==
    {<<>>, <<"l">>, <<"c">>, <<"r">>, <<"r", "l">>}

\* The state after a call; args keeps the cells put so far, row by row
MatrixCalled(st, name, cells) ==
    /\ level' = st.level /\ chunks' = st.chunks /\ tokenByToken' = st.tbt
    /\ out' = st.out /\ wait' = st.wait /\ action' = st.action
    /\ curlength' = st.curlength /\ par' = st.par /\ printed' = st.printed
    /\ err' = st.err /\ obs' = st.obs
    /\ fn' = name /\ args' = cells
    /\ UNCHANGED <<linelength, opt_noindent, pc, ret, defs, defcount, maxdef, held>>

InitAlign == Idle /\ fn = "reset_state" /\ args = <<>> /\ ret = empty

Matrix ==
    /\ fn = "reset_state"
    /\ MatrixCalled(matrix(State), "matrix", << <<>> >>)

\* The text of a cell
Cell ==
    /\ fn \in {"matrix", "ampersand", "bbackslash"} /\ err = "none"
    /\ \E t \in CellTexts :
           MatrixCalled(puts(State, t, FALSE), "puts",
                        [args EXCEPT ![Len(args)] = Append(@, t)])

Ampersand ==
    /\ fn = "puts" /\ err = "none"
    /\ Len(args[Len(args)]) < MaxCols
    /\ MatrixCalled(ampersand(State), "ampersand", args)

RowBreak ==
    /\ fn = "puts" /\ err = "none"
    /\ Len(args) < MaxRows
    /\ MatrixCalled(endCellRow(State), "bbackslash", Append(args, <<>>))

EndMatrix ==
    /\ fn = "puts" /\ err = "none"
    /\ \E e \in Gaps, c \in Alignments :
           MatrixCalled(endmatrix(State, e, c), "endmatrix", args)

NextAlign == Matrix \/ Cell \/ Ampersand \/ RowBreak \/ EndMatrix

SpecAlign == InitAlign /\ [][NextAlign]_vars

\* The cells of row r (from 0) as halign left them, by the chunks it read
AlignedRow(ev, r) ==
    SubSeq(ev.recs, ev.chunks[r + ev.n[2] + 1] + 1,
           IF r + ev.n[2] + 1 = Len(ev.chunks) THEN Len(ev.recs)
           ELSE ev.chunks[r + ev.n[2] + 2])

\* C27: after halign, for each alignment and each gap, every cell of a
\* column has the same width, the column's maximum cell width plus the gap
\* for every column but the last, so rows with the same number of cells have
\* equal total width.
C27_ColumnsAligned ==
    \A i \in 1..Len(obs) :
        (obs[i].kind = "halign" /\ err = "none") =>
            \A r \in 0..(Len(args) - 1) :
                /\ Len(AlignedRow(obs[i], r)) = Len(args[r + 1])
                /\ \A col \in 1..Len(args[r + 1]) :
                       AlignedRow(obs[i], r)[col].l =
                           MaxOf({Len(args[q][col]) :
                                    q \in {k \in 1..Len(args) : Len(args[k]) >= col}})
                           + (IF col < MaxOf({Len(args[q]) : q \in 1..Len(args)})
                              THEN obs[i].n[1] ELSE 0)

\* ------------------------------------------------- margins of a bracket

\* The blank columns a bracket record carries on the side of its content:
\* after a left angle bracket, before a right one
ContentMargin(rec) ==
    IF Has(rec.s, "u27E8")
    THEN rec.l - MaxOf({Len(RStrip(SplitNL(rec.s)[i])) : i \in 1..Len(SplitNL(rec.s))})
    ELSE rec.l - MaxOf({Len(LStrip(LJust(SplitNL(rec.s)[i], rec.l))) :
                          i \in 1..Len(SplitNL(rec.s))})

\* A bracket as makehigh_inplace left it, with a margin on its content side
MarginBracket(rec) == rec.h >= 3 /\ HasTip(rec) /\ ContentMargin(rec) > 0

\* C28: when join_records regenerates an angle bracket at a larger height,
\* the blank margin column added to the bracket record on its content side is
\* still present: the bracket operand's width in the result is the
\* regenerated bracket width plus the margin.
C28_MarginKept ==
    fn = "join_records" =>
        /\ (MarginBracket(args[1]) /\ Redrawn(args[1], ret) /\ ~HasTip(args[2])) =>
               ret.l - args[2].l = angleWidth(ret.h, ret.b) + ContentMargin(args[1])
        /\ (MarginBracket(args[2]) /\ Redrawn(args[2], ret) /\ ~HasTip(args[1])) =>
               ret.l - args[1].l = angleWidth(ret.h, ret.b) + ContentMargin(args[2])

\* ------------------------------------------------ a run that opens with + - =

\* A math-mode scope is open: one that $ or $$ started
MathOpen(w) == \E i \in 1..Len(w) : w[i] \in {"$", "$$"}

\* C29: the leading space before an ordinary run that opens with +, - or =
\* is inserted only while a math-mode scope is open; in text mode, with no
\* math scope on the stack, such a run is committed unchanged.
C29_SpaceOnlyInMath ==
    \A i \in 1..Len(obs) :
        (obs[i].kind = "usual" /\ obs[i].piece[1] \in {"+", "-", "="}
         /\ ~MathOpen(obs[i].wait)) =>
            obs[i].recs = <<obs[i].piece>>

\* --------------------------------------------- blanks before an argument

\* C30: in single-token mode a whitespace character that precedes an
\* argument is skipped and is not committed as a chunk: \frac{a} {b} and x^ 2
\* collect the same arguments as \frac{a}{b} and x^2.
C30_BlankSkipped ==
    \A i \in 1..Len(obs) :
        (obs[i].kind = "usual" /\ obs[i].n # 0 /\ IsWs(obs[i].piece[1])) =>
            obs[i].recs = <<>>


====
